---- MODULE Spec2Model ----
(***************************************************************************)
(* A model of async-bagit: the tag model (metadata.rs), the tag file       *)
(* (metadata/file.rs), payloads and manifests (payload.rs, manifest.rs),   *)
(* the bag assembler (generate.rs) and the bag validator (read.rs).        *)
(*                                                                         *)
(* Text is a sequence of one-character strings, a file is its text, a path *)
(* on disk is the sequence of its components.  The build modelled is the   *)
(* one with the optional "date" feature: a Bagging-Date line is a typed    *)
(* tag and the assembler has add_bagging_date.                             *)
(***************************************************************************)
EXTENDS Integers, Sequences, FiniteSets, TLC

VARIABLES
    fs,         \* the disk
    items,      \* BagIt.items of the bag being assembled
    tags,       \* BagIt.tags of the bag being assembled
    genRes,     \* what the last assembler call returned
    lastOp,     \* the last call made
    clean,      \* every assembler call so far returned Ok
    sealed,     \* the last assembler call was a finalize that returned Ok
    nAdd,       \* add_file calls made
    added,      \* the files handed to the add_file calls that returned Ok
    nFin,       \* finalize calls made
    readRes,    \* what the last read_existing returned, with what it digested
    readArgs,   \* the directory and algorithm of the last read_existing
    nRead,      \* read_existing calls made
    nTamper,    \* changes made to the bag directory behind the library
    tampered,   \* the payload files changed behind the library
    tag,        \* SpecTag: the tag handed to Display
    line,       \* SpecTag: the serialized line
    parsed,     \* SpecTag: the result of Metadata::from_str on the line
    tpc,        \* SpecTag: position of the round trip
    join,       \* SpecJoin: the three checksum futures of a running finalize
    found       \* SpecFind: a listing, and what Manifest::find returned for it

bagVars == <<fs, items, tags, genRes, lastOp, clean, sealed, nAdd, added, nFin,
             readRes, readArgs, nRead, nTamper, tampered>>
tagVars == <<tag, line, parsed, tpc, join, found>>
vars == <<bagVars, tagVars>>

-----------------------------------------------------------------------------
(* Text helpers: what the standard library calls used by the code do.      *)

Min(S) == CHOOSE m \in S : \A o \in S : m <= o

\* `let name = value;` followed by the rest of the block: Rest applied to
\* the value, computed once
Only(S) == CHOOSE v \in S : TRUE
With(value, Rest(_)) == Only({Rest(v) : v \in {value}})

\* char::is_whitespace, restricted to the characters the model uses
WhiteSpace == {" ", "\t", "\n", "\r"}

Digits == <<"0", "1", "2", "3", "4", "5", "6", "7", "8", "9">>

IsDigit(c) == \E d \in 1..10 : Digits[d] = c

DigitValue(c) == (CHOOSE d \in 1..10 : Digits[d] = c) - 1

\* whether pattern pat occurs in s at position i
MatchesAt(s, i, pat) ==
    /\ i + Len(pat) - 1 <= Len(s)
    /\ \A j \in 1..Len(pat) : s[i + j - 1] = pat[j]

\* str::split_once: split at the first occurrence of pat
split_once(s, pat) ==
    LET hits == {i \in 1..Len(s) : MatchesAt(s, i, pat)}
    IN  IF hits = {}
        THEN [found |-> FALSE, left |-> <<>>, right |-> <<>>]
        ELSE LET i == Min(hits)
             IN  [found |-> TRUE,
                  left  |-> SubSeq(s, 1, i - 1),
                  right |-> SubSeq(s, i + Len(pat), Len(s))]

\* str::contains for a single character
Contains(s, c) == \E i \in 1..Len(s) : s[i] = c

\* the value of a string of decimal digits
RECURSIVE DigitsValue(_, _)
DigitsValue(s, acc) ==
    IF s = <<>> THEN acc
    ELSE DigitsValue(Tail(s), acc * 10 + DigitValue(Head(s)))

\* <unsigned integer>::from_str before the overflow check: an optional
\* leading "+", then one or more digits
ParseDigits(s) ==
    LET body == IF s # <<>> /\ Head(s) = "+" THEN Tail(s) ELSE s
    IN  IF body = <<>> \/ \E i \in 1..Len(body) : ~IsDigit(body[i])
        THEN [ok |-> FALSE, n |-> 0]
        ELSE [ok |-> TRUE, n |-> DigitsValue(body, 0)]

U8_MAX == 255

\* u8::from_str
parse_u8(s) ==
    LET r == ParseDigits(s)
    IN  IF r.ok /\ r.n > U8_MAX THEN [ok |-> FALSE, n |-> 0] ELSE r

\* usize::from_str; the digit strings of the model are too short to overflow
parse_usize(s) == ParseDigits(s)

\* Display of an unsigned integer
RECURSIVE DecimalString(_)
DecimalString(n) ==
    IF n < 10 THEN <<Digits[n + 1]>>
    ELSE Append(DecimalString(n \div 10), Digits[(n % 10) + 1])

-----------------------------------------------------------------------------
(* metadata.rs: the tag model                                              *)

KEY_VERSION == <<"B","a","g","I","t","-","V","e","r","s","i","o","n">>
KEY_ENCODING == <<"T","a","g","-","F","i","l","e","-","C","h","a","r","a","c","t","e","r","-","E","n","c","o","d","i","n","g">>
KEY_DATE == <<"B","a","g","g","i","n","g","-","D","a","t","e">>
KEY_OXUM == <<"P","a","y","l","o","a","d","-","O","x","u","m">>
UTF8 == <<"U","T","F","-","8">>

\* enum Metadata, one record shape for every variant
Custom(k, v) == [kind |-> "Custom", key |-> k, value |-> v, n1 |-> 0, n2 |-> 0]
BagitVersion(major, minor) ==
    [kind |-> "BagitVersion", key |-> <<>>, value |-> <<>>, n1 |-> major, n2 |-> minor]
Encoding == [kind |-> "Encoding", key |-> <<>>, value |-> <<>>, n1 |-> 0, n2 |-> 0]
PayloadOctetStreamSummary(octet_count, stream_count) ==
    [kind |-> "PayloadOctetStreamSummary", key |-> <<>>, value |-> <<>>,
     n1 |-> octet_count, n2 |-> stream_count]
\* a calendar date is held as the number year * 10000 + month * 100 + day
BaggingDate(date) ==
    [kind |-> "BaggingDate", key |-> <<>>, value |-> <<>>, n1 |-> date, n2 |-> 0]
NoTag == [kind |-> "None", key |-> <<>>, value |-> <<>>, n1 |-> 0, n2 |-> 0]

\* Display of jiff::civil::Date: "YYYY-MM-DD"
Pad(text, width) == [i \in 1..(width - Len(text)) |-> "0"] \o text

DateString(date) ==
    Pad(DecimalString(date \div 10000), 4) \o <<"-">>
        \o Pad(DecimalString((date \div 100) % 100), 2) \o <<"-">>
        \o Pad(DecimalString(date % 100), 2)

DaysInMonth(year, month) ==
    IF month \in {4, 6, 9, 11} THEN 30
    ELSE IF month # 2 THEN 31
    ELSE IF year % 4 = 0 /\ (year % 100 # 0 \/ year % 400 = 0) THEN 29
    ELSE 28

ValidDate(year, month, day) ==
    /\ month \in 1..12
    /\ day \in 1..DaysInMonth(year, month)

\* jiff::civil::Date::from_str, for the texts "YYYY-MM-DD"; any other text
\* is taken as no date
Date_from_str(s) ==
    IF /\ Len(s) = 10
       /\ s[5] = "-" /\ s[8] = "-"
       /\ \A i \in {1, 2, 3, 4, 6, 7, 9, 10} : IsDigit(s[i])
       /\ ValidDate(DigitsValue(SubSeq(s, 1, 4), 0), DigitsValue(SubSeq(s, 6, 7), 0),
                    DigitsValue(SubSeq(s, 9, 10), 0))
    THEN [ok |-> TRUE,
          n |-> DigitsValue(SubSeq(s, 1, 4), 0) * 10000
                + DigitsValue(SubSeq(s, 6, 7), 0) * 100
                + DigitsValue(SubSeq(s, 9, 10), 0)]
    ELSE [ok |-> FALSE, n |-> 0]

Metadata_key(t) ==
    CASE t.kind = "Custom" -> t.key
      [] t.kind = "BagitVersion" -> KEY_VERSION
      [] t.kind = "Encoding" -> KEY_ENCODING
      [] t.kind = "BaggingDate" -> KEY_DATE
      [] t.kind = "PayloadOctetStreamSummary" -> KEY_OXUM

Metadata_value(t) ==
    CASE t.kind = "Custom" -> t.value
      [] t.kind = "BagitVersion" -> DecimalString(t.n1) \o <<".">> \o DecimalString(t.n2)
      [] t.kind = "Encoding" -> UTF8
      [] t.kind = "BaggingDate" -> DateString(t.n1)
      [] t.kind = "PayloadOctetStreamSummary" ->
            DecimalString(t.n1) \o <<".">> \o DecimalString(t.n2)

\* impl Display for Metadata
Metadata_to_string(t) == Metadata_key(t) \o <<":", " ">> \o Metadata_value(t)

(* faulty variant: the value is looked at before the key *)
validate_format_ValueFirst(k, v) ==
    IF k = <<>> \/ v = <<>> THEN "Format"
    ELSE IF Head(v) \in WhiteSpace \/ v[Len(v)] \in WhiteSpace
         THEN "ValueForbiddenCharacter"
    ELSE IF Contains(k, ":") THEN "KeyForbiddenCharacter"
    ELSE "Ok"

\* Metadata::validate_format
validate_format(k, v) ==
    IF k = <<>> \/ v = <<>> THEN "Format"
    ELSE IF Contains(k, ":") THEN "KeyForbiddenCharacter"
    ELSE IF Head(v) \in WhiteSpace \/ v[Len(v)] \in WhiteSpace
         THEN "ValueForbiddenCharacter"
    ELSE "Ok"

ParseErr(e) == [ok |-> FALSE, err |-> e, tag |-> NoTag]
ParseOk(t) == [ok |-> TRUE, err |-> <<>>, tag |-> t]

\* the arms of from_str for a value "<a>.<b>" of two unsigned integers
TwoNumbers(v, small) ==
    With(split_once(v, <<".">>), LAMBDA sp :
    IF ~sp.found THEN [ok |-> FALSE, a |-> 0, b |-> 0]
    ELSE
    With(IF small THEN parse_u8(sp.left) ELSE parse_usize(sp.left), LAMBDA a :
    With(IF small THEN parse_u8(sp.right) ELSE parse_usize(sp.right), LAMBDA b :
    IF ~a.ok \/ ~b.ok THEN [ok |-> FALSE, a |-> 0, b |-> 0]
    ELSE [ok |-> TRUE, a |-> a.n, b |-> b.n])))

\* (faulty variant) the dispatch with the two counts of Payload-Oxum read in the
\* wrong order
from_str_dispatch_swapped(k, v) ==
    IF k = KEY_VERSION THEN
        With(TwoNumbers(v, TRUE), LAMBDA p :
        IF p.ok THEN ParseOk(BagitVersion(p.a, p.b))
        ELSE ParseErr(<<"ValueParsing", "BagIt-Version">>))
    ELSE IF k = KEY_ENCODING THEN
        IF v # UTF8 THEN ParseErr(<<"Encoding">>) ELSE ParseOk(Encoding)
    ELSE IF k = KEY_DATE THEN
        With(Date_from_str(v), LAMBDA d :
        IF d.ok THEN ParseOk(BaggingDate(d.n))
        ELSE ParseErr(<<"ValueParsing", "Bagging-Date">>))
    ELSE IF k = KEY_OXUM THEN
        With(TwoNumbers(v, FALSE), LAMBDA p :
        IF p.ok THEN ParseOk(PayloadOctetStreamSummary(p.b, p.a))
        ELSE ParseErr(<<"ValueParsing", "Payload-Oxum">>))
    ELSE ParseOk(Custom(k, v))

(* faulty variant: the key Bagging-Date is not known *)
from_str_dispatch_SansDate(k, v) ==
    IF k = KEY_VERSION THEN
        With(TwoNumbers(v, TRUE), LAMBDA p :
        IF p.ok THEN ParseOk(BagitVersion(p.a, p.b))
        ELSE ParseErr(<<"ValueParsing", "BagIt-Version">>))
    ELSE IF k = KEY_ENCODING THEN
        IF v # UTF8 THEN ParseErr(<<"Encoding">>) ELSE ParseOk(Encoding)
    ELSE IF k = KEY_OXUM THEN
        With(TwoNumbers(v, FALSE), LAMBDA p :
        IF p.ok THEN ParseOk(PayloadOctetStreamSummary(p.a, p.b))
        ELSE ParseErr(<<"ValueParsing", "Payload-Oxum">>))
    ELSE ParseOk(Custom(k, v))

\* the match on the key in from_str, after validate_format
from_str_dispatch(k, v) ==
    IF k = KEY_VERSION THEN
        With(TwoNumbers(v, TRUE), LAMBDA p :
        IF p.ok THEN ParseOk(BagitVersion(p.a, p.b))
        ELSE ParseErr(<<"ValueParsing", "BagIt-Version">>))
    ELSE IF k = KEY_ENCODING THEN
        IF v # UTF8 THEN ParseErr(<<"Encoding">>) ELSE ParseOk(Encoding)
    ELSE IF k = KEY_DATE THEN
        With(Date_from_str(v), LAMBDA d :
        IF d.ok THEN ParseOk(BaggingDate(d.n))
        ELSE ParseErr(<<"ValueParsing", "Bagging-Date">>))
    ELSE IF k = KEY_OXUM THEN
        With(TwoNumbers(v, FALSE), LAMBDA p :
        IF p.ok THEN ParseOk(PayloadOctetStreamSummary(p.a, p.b))
        ELSE ParseErr(<<"ValueParsing", "Payload-Oxum">>))
    ELSE ParseOk(Custom(k, v))

\* impl FromStr for Metadata
from_str(s) ==
    With(split_once(s, <<":", " ">>), LAMBDA sp :
    IF ~sp.found THEN ParseErr(<<"Format">>)
    ELSE
    With(validate_format(sp.left, sp.right), LAMBDA v :
    IF v # "Ok" THEN ParseErr(<<v>>)
    ELSE from_str_dispatch(sp.left, sp.right)))

-----------------------------------------------------------------------------
(* Text of files and paths                                                 *)

\* the maximal runs of s without a character of seps, in order
\* (str::split_whitespace; the normal components of a path)
SplitOn(s, seps) ==
    LET n == Len(s)
        starts == {i \in 1..n : s[i] \notin seps /\ (i = 1 \/ s[i - 1] \in seps)}
        EndOf(i) == Min({j \in i..n : j = n \/ s[j + 1] \in seps})
        RECURSIVE Build(_)
        Build(S) == IF S = {} THEN <<>>
                    ELSE LET i == Min(S)
                         IN  <<SubSeq(s, i, EndOf(i))>> \o Build(S \ {i})
    IN  Build(starts)

split_whitespace(s) == SplitOn(s, WhiteSpace)

\* AsyncBufReadExt::lines: the text cut at each "\n", the "\n" and a "\r"
\* before it removed; no line after a final "\n"
Lines(s) ==
    LET n == Len(s)
        starts == {i \in 1..n : i = 1 \/ s[i - 1] = "\n"}
        Stop(i) == Min({j \in i..(n + 1) : j = n + 1 \/ s[j] = "\n"})
        LineAt(i) ==
            LET j == Stop(i)
                raw == SubSeq(s, i, j - 1)
            IN  IF j <= n /\ raw # <<>> /\ raw[Len(raw)] = "\r"
                THEN SubSeq(raw, 1, Len(raw) - 1) ELSE raw
        RECURSIVE Build(_)
        Build(S) == IF S = {} THEN <<>>
                    ELSE LET i == Min(S) IN <<LineAt(i)>> \o Build(S \ {i})
    IN  Build(starts)

\* [String]::join("\n")
RECURSIVE JoinLines(_)
JoinLines(ls) ==
    IF ls = <<>> THEN <<>>
    ELSE IF Len(ls) = 1 THEN ls[1]
    ELSE ls[1] \o <<"\n">> \o JoinLines(Tail(ls))

\* Path::components of a path text: "." and empty components dropped
Components(text) ==
    LET raw == SplitOn(text, {"/"})
    IN  SelectSeq(raw, LAMBDA c : c # <<".">>)

IsAbsolute(text) == text # <<>> /\ Head(text) = "/"

\* Path::join of a base (components) and a path text
PathJoin(base, text) ==
    IF IsAbsolute(text) THEN Components(text) ELSE base \o Components(text)

(* faulty variant: a prefix test on the text of the two paths *)
starts_with_text(path, base) ==
    LET Flat(p) == JoinLines(p)
    IN  /\ Len(Flat(base)) <= Len(Flat(path))
        /\ SubSeq(Flat(path), 1, Len(Flat(base))) = Flat(base)

\* Path::starts_with: whole components
starts_with(path, base) ==
    /\ Len(base) <= Len(path)
    /\ SubSeq(path, 1, Len(base)) = base

\* Path::file_name
file_name(path) == path[Len(path)]

LastDot(name) ==
    LET dots == {i \in 1..Len(name) : name[i] = "."}
    IN  IF dots = {} THEN 0 ELSE CHOOSE i \in dots : \A j \in dots : j <= i

\* Path::file_stem and Path::extension of a file name
file_stem(name) ==
    IF LastDot(name) <= 1 THEN name ELSE SubSeq(name, 1, LastDot(name) - 1)

extension(name) ==
    IF LastDot(name) <= 1 THEN [some |-> FALSE, ext |-> <<>>]
    ELSE [some |-> TRUE, ext |-> SubSeq(name, LastDot(name) + 1, Len(name))]

strip_prefix(s, prefix) ==
    IF Len(prefix) <= Len(s) /\ SubSeq(s, 1, Len(prefix)) = prefix
    THEN [some |-> TRUE, rest |-> SubSeq(s, Len(prefix) + 1, Len(s))]
    ELSE [some |-> FALSE, rest |-> <<>>]

-----------------------------------------------------------------------------
(* The file system: a function from absolute paths (sequences of           *)
(* components) to nodes.  The root directory is the empty path.            *)

\* readable: whether the process may open the file for reading
File(content) ==
    [kind |-> "file", content |-> content, target |-> <<>>, readable |-> TRUE]
Dir == [kind |-> "dir", content |-> <<>>, target |-> <<>>, readable |-> TRUE]
Link(target) == [kind |-> "link", content |-> <<>>, target |-> target, readable |-> TRUE]

\* a regular file the process may write but not read
WriteOnly(content) ==
    [kind |-> "file", content |-> content, target |-> <<>>, readable |-> FALSE]

MaxLinks == 2

\* fs::canonicalize: ".." and symbolic links resolved, every component must
\* exist
RECURSIVE Canon(_, _, _, _)
Canon(fsys, done, rest, fuel) ==
    IF rest = <<>> THEN [ok |-> TRUE, path |-> done, kind |-> "Ok"]
    ELSE LET c == Head(rest)
         IN  IF fsys[done].kind # "dir"
             THEN [ok |-> FALSE, path |-> <<>>, kind |-> "NotADirectory"]
             ELSE IF c = <<".", ".">>
             THEN Canon(fsys, IF done = <<>> THEN <<>> ELSE SubSeq(done, 1, Len(done) - 1),
                        Tail(rest), fuel)
             ELSE LET p == Append(done, c)
                  IN  IF p \notin DOMAIN fsys
                      THEN [ok |-> FALSE, path |-> <<>>, kind |-> "NotFound"]
                      ELSE IF fsys[p].kind = "link"
                      THEN IF fuel = 0
                           THEN [ok |-> FALSE, path |-> <<>>, kind |-> "FilesystemLoop"]
                           ELSE Canon(fsys, <<>>, fsys[p].target \o Tail(rest), fuel - 1)
                      ELSE Canon(fsys, p, Tail(rest), fuel)

canonicalize(fsys, path) == Canon(fsys, <<>>, path, MaxLinks)

exists(fsys, path) == canonicalize(fsys, path).ok

is_file(fsys, path) ==
    LET r == canonicalize(fsys, path) IN r.ok /\ fsys[r.path].kind = "file"

is_dir(fsys, path) ==
    LET r == canonicalize(fsys, path) IN r.ok /\ fsys[r.path].kind = "dir"

\* whether File::open(path) of a regular file succeeds
Readable(fsys, path) ==
    is_file(fsys, path) /\ fsys[canonicalize(fsys, path).path].readable

\* the content of a regular file
ReadFile(fsys, path) == fsys[canonicalize(fsys, path).path].content

\* fs::metadata(path).len()
FileLen(fsys, path) == Len(ReadFile(fsys, path))

\* fs::write: the content of the file replaced, the file created when it
\* does not exist; the parent directory must exist
WriteFile(fsys, path, content) ==
    LET parent == canonicalize(fsys, SubSeq(path, 1, Len(path) - 1))
    IN  IF path = <<>> \/ ~parent.ok \/ fsys[parent.path].kind # "dir"
        THEN [ok |-> FALSE, kind |-> "NotFound", fs |-> fsys]
        ELSE LET p == Append(parent.path, path[Len(path)])
             IN  IF p \notin DOMAIN fsys
                 THEN [ok |-> TRUE, kind |-> "Ok", fs |-> (p :> File(content)) @@ fsys]
                 ELSE IF ~canonicalize(fsys, p).ok
                 THEN [ok |-> FALSE, kind |-> canonicalize(fsys, p).kind, fs |-> fsys]
                 ELSE IF fsys[canonicalize(fsys, p).path].kind = "dir"
                 THEN [ok |-> FALSE, kind |-> "IsADirectory", fs |-> fsys]
                 ELSE [ok |-> TRUE, kind |-> "Ok",
                       fs |-> [fsys EXCEPT ![canonicalize(fsys, p).path].content = content]]

\* fs::copy: the destination is opened for writing and truncated, then the
\* bytes of the source are copied into it, and it takes the permissions of
\* the source; when the two paths name the same file, the file is
\* truncated before anything is read from it
CopyFile(fsys, from, to) ==
    LET w == WriteFile(fsys, to,
                       IF /\ exists(fsys, to)
                          /\ canonicalize(fsys, to).path = canonicalize(fsys, from).path
                       THEN <<>> ELSE ReadFile(fsys, from))
    IN  IF ~w.ok THEN w
        ELSE [ok |-> TRUE, kind |-> "Ok",
              fs |-> [w.fs EXCEPT ![canonicalize(w.fs, to).path].readable =
                                        fsys[canonicalize(fsys, from).path].readable]]

\* fs::create_dir_all
RECURSIVE MkDirs(_, _, _)
MkDirs(fsys, path, k) ==
    IF k > Len(path) THEN [ok |-> TRUE, fs |-> fsys]
    ELSE LET p == SubSeq(path, 1, k)
         IN  IF p \notin DOMAIN fsys THEN MkDirs((p :> Dir) @@ fsys, path, k + 1)
             ELSE IF fsys[p].kind = "dir" THEN MkDirs(fsys, path, k + 1)
             ELSE [ok |-> FALSE, fs |-> fsys]

create_dir_all(fsys, path) == MkDirs(fsys, path, 1)

\* fs::read_dir: the names of the entries of a directory
read_dir(fsys, dir) ==
    {p[Len(p)] : p \in {q \in DOMAIN fsys : Len(q) = Len(dir) + 1 /\ starts_with(q, dir)}}

-----------------------------------------------------------------------------
(* checksum.rs, algorithm.rs                                               *)

\* the printable ASCII characters from 32 to 126, without the one of byte 96
Printable ==
    <<" ","!","\"","#","$","%","&","'","(",")","*","+",",","-",".","/","0","1","2","3","4","5","6","7","8","9",":",";","<","=",">","?">>
    \o <<"@","A","B","C","D","E","F","G","H","I","J","K","L","M","N","O","P","Q","R","S","T","U","V","W","X","Y","Z","[","\\","]","^","_">>
    \o <<"a","b","c","d","e","f","g","h","i","j","k","l","m","n","o","p","q","r","s","t","u","v","w","x","y","z","{","|","}","~">>

\* the byte of a character (ASCII)
ByteOf ==
    [c \in {Printable[i] : i \in 1..Len(Printable)} \cup {"\t", "\n", "\r"} |->
        CASE c = "\t" -> 9
          [] c = "\n" -> 10
          [] c = "\r" -> 13
          [] OTHER -> LET i == CHOOSE j \in 1..Len(Printable) : Printable[j] = c
                      IN  IF i <= 64 THEN 31 + i ELSE 32 + i]

HexDigits == <<"0","1","2","3","4","5","6","7","8","9","a","b","c","d","e","f">>
HexDigitsUpper == <<"0","1","2","3","4","5","6","7","8","9","A","B","C","D","E","F">>

(* faulty variant: uppercase digits *)
hex_encode_upper(bytes) ==
    [i \in 1..(2 * Len(bytes)) |->
        IF i % 2 = 1 THEN HexDigitsUpper[(bytes[(i + 1) \div 2] \div 16) + 1]
        ELSE HexDigitsUpper[(bytes[i \div 2] % 16) + 1]]

\* hex::encode: two lowercase digits per byte
hex_encode(bytes) ==
    [i \in 1..(2 * Len(bytes)) |->
        IF i % 2 = 1 THEN HexDigits[(bytes[(i + 1) \div 2] \div 16) + 1]
        ELSE HexDigits[(bytes[i \div 2] % 16) + 1]]

\* Algorithm::name of the two algorithms of the model
SHA256 == <<"s","h","a","2","5","6">>
MD5 == <<"m","d","5">>

\* Digest::digest, abstracted as a collision-free function of the algorithm
\* and the bytes: a byte naming the algorithm, then the bytes themselves
DigestBytes(algo, content) ==
    <<Len(algo)>> \o [i \in 1..Len(content) |-> ByteOf[content[i]]]

\* From<&[u8]> and From<Vec<u8>> for Checksum: the lowercase hex text
Checksum_from_bytes(bytes) == hex_encode(bytes)

\* From<&str> and From<String> for Checksum: the text as it is
Checksum_from_str(text) == text

\* Checksum::digest
Checksum_digest(algo, content) == Checksum_from_bytes(DigestBytes(algo, content))

\* compute_checksum_file
compute_checksum_file(fsys, algo, path) ==
    IF ~is_file(fsys, path)
    THEN [ok |-> FALSE, err |-> <<"FileNotFound">>, checksum |-> <<>>]
    ELSE IF ~Readable(fsys, path)
    THEN [ok |-> FALSE, err |-> <<"OpenFile", "PermissionDenied">>, checksum |-> <<>>]
    ELSE [ok |-> TRUE, err |-> <<>>, checksum |-> Checksum_digest(algo, ReadFile(fsys, path))]

-----------------------------------------------------------------------------
(* payload.rs                                                              *)

\* struct Payload; relative_path is the text of the path
Payload(checksum, relative_path, bytes) ==
    [checksum |-> checksum, relative_path |-> relative_path, bytes |-> bytes]

NoPayload == Payload(<<>>, <<>>, 0)

\* impl Display for Payload
Payload_to_string(p) == p.checksum \o <<" ">> \o p.relative_path

\* Payload::new
Payload_new(fsys, base, relative_path, checksum) ==
    IF ~exists(fsys, PathJoin(base, relative_path))
    THEN [ok |-> FALSE, err |-> <<"FileSize", "NotFound">>, payload |-> NoPayload]
    ELSE [ok |-> TRUE, err |-> <<>>,
          payload |-> Payload(checksum, relative_path,
                              FileLen(fsys, PathJoin(base, relative_path)))]

-----------------------------------------------------------------------------
(* lib.rs, generate.rs: the bag assembler.  A bag in memory is its root    *)
(* path, its algorithm, its payload list `items` and its tag list `tags`;  *)
(* an operation maps the disk and the bag to a result, the disk and the    *)
(* bag after it.                                                           *)

BAGIT_TXT == <<"b","a","g","i","t",".","t","x","t">>
BAG_INFO_TXT == <<"b","a","g","-","i","n","f","o",".","t","x","t">>
MANIFEST_PREFIX == <<"m","a","n","i","f","e","s","t","-">>
TAGMANIFEST_PREFIX == <<"t","a","g","m","a","n","i","f","e","s","t","-">>
TXT == <<"t","x","t">>
DATA_DIR == <<"d","a","t","a","/">>

manifest_name(algo) == MANIFEST_PREFIX \o algo \o <<".">> \o TXT
tagmanifest_name(algo) == TAGMANIFEST_PREFIX \o algo \o <<".">> \o TXT

GenResult(ok, err, fsys, its, tgs) ==
    [ok |-> ok, err |-> err, fs |-> fsys, items |-> its, tags |-> tgs]

(* faulty variant: the payload is pushed before the file is copied *)
add_file_PushFirst(fsys, root, algo, its, tgs, file) ==
    With(compute_checksum_file(fsys, algo, file), LAMBDA file_checksum :
    IF ~file_checksum.ok
    THEN GenResult(FALSE, <<"ComputeChecksum">> \o file_checksum.err, fsys, its, tgs)
    ELSE
    With(create_dir_all(fsys, PathJoin(root, DATA_DIR)), LAMBDA made :
    IF ~made.ok
    THEN GenResult(FALSE, <<"OpenChecksumFile">>, fsys, its, tgs)
    ELSE
    IF file = <<>> \/ file_name(file) = <<".", ".">>
    THEN GenResult(FALSE, <<"FileHasNoName">>, made.fs, its, tgs)
    ELSE
    With(Append(PathJoin(root, DATA_DIR), file_name(file)), LAMBDA destination :
    With(Append(its, Payload(file_checksum.checksum, DATA_DIR \o file_name(file),
                             FileLen(fsys, file))),
         LAMBDA pushed :
    With(CopyFile(made.fs, file, destination), LAMBDA copied :
    IF ~copied.ok
    THEN GenResult(FALSE, <<"CopyToPayloadFolder", copied.kind>>, made.fs, pushed, tgs)
    ELSE GenResult(TRUE, <<>>, copied.fs, pushed, tgs))))))

\* BagIt::add_file
add_file(fsys, root, algo, its, tgs, file) ==
    With(compute_checksum_file(fsys, algo, file), LAMBDA file_checksum :
    IF ~file_checksum.ok
    THEN GenResult(FALSE, <<"ComputeChecksum">> \o file_checksum.err, fsys, its, tgs)
    ELSE
    With(create_dir_all(fsys, PathJoin(root, DATA_DIR)), LAMBDA made :
    IF ~made.ok
    THEN GenResult(FALSE, <<"OpenChecksumFile">>, fsys, its, tgs)
    ELSE
    IF file = <<>> \/ file_name(file) = <<".", ".">>
    THEN GenResult(FALSE, <<"FileHasNoName">>, made.fs, its, tgs)
    ELSE
    With(Append(PathJoin(root, DATA_DIR), file_name(file)), LAMBDA destination :
    With(CopyFile(made.fs, file, destination), LAMBDA copied :
    IF ~copied.ok
    THEN GenResult(FALSE, <<"CopyToPayloadFolder", copied.kind>>, made.fs, its, tgs)
    ELSE
    With(DATA_DIR \o file_name(file), LAMBDA relative_path :
    With(Payload_new(copied.fs, root, relative_path, file_checksum.checksum), LAMBDA payload :
    IF ~payload.ok
    THEN GenResult(FALSE, <<"Payload">> \o payload.err, copied.fs, its, tgs)
    ELSE GenResult(TRUE, <<>>, copied.fs, Append(its, payload.payload), tgs)))))))

\* BagIt::add_bagging_date
add_bagging_date(tgs, date) == Append(tgs, BaggingDate(date))

(* faulty variant: every line ended by "\n", one written for no line *)
write_manifest_file_Terminated(fsys, root, filename, lines) ==
    WriteFile(fsys, PathJoin(root, filename), JoinLines(lines) \o <<"\n">>)

\* BagIt::write_manifest_file: the lines joined by "\n", the file replaced
write_manifest_file(fsys, root, filename, lines) ==
    WriteFile(fsys, PathJoin(root, filename), JoinLines(lines))

\* MetadataFile::write
MetadataFile_write(fsys, path, tgs) ==
    WriteFile(fsys, path, JoinLines([i \in 1..Len(tgs) |-> Metadata_to_string(tgs[i])]))

RECURSIVE SumBytes(_)
SumBytes(its) == IF its = <<>> THEN 0 ELSE its[1].bytes + SumBytes(Tail(its))

\* the summary tag finalize pushes
(* faulty variant: the two counts exchanged *)
OxumOfSwapped(its) == PayloadOctetStreamSummary(Len(its), SumBytes(its))

OxumOf(its) == PayloadOctetStreamSummary(SumBytes(its), Len(its))

(* faulty variant: the tag manifest is not written *)
write_tagmanifest_file_Skipped(fsys, root, algo) ==
    [ok |-> TRUE, err |-> <<>>, fs |-> fsys]

\* BagIt::write_tagmanifest_file
write_tagmanifest_file(fsys, root, algo) ==
    With(<<BAGIT_TXT, BAG_INFO_TXT, manifest_name(algo)>>, LAMBDA names :
    With([i \in 1..3 |-> compute_checksum_file(fsys, algo, PathJoin(root, names[i]))],
         LAMBDA sums :
    With({i \in 1..3 : ~sums[i].ok}, LAMBDA bad :
    IF bad # {}
    THEN [ok |-> FALSE, err |-> <<"ComputeChecksum">> \o sums[Min(bad)].err, fs |-> fsys]
    ELSE
    With([i \in 1..3 |-> Payload_new(fsys, root, names[i], sums[i].checksum)],
         LAMBDA made :
    With(SelectSeq(made, LAMBDA m : m.ok), LAMBDA kept :
    With([i \in 1..Len(kept) |-> Payload_to_string(kept[i].payload)], LAMBDA lines :
    With(write_manifest_file(fsys, root, tagmanifest_name(algo), lines), LAMBDA written :
    IF ~written.ok
    THEN [ok |-> FALSE, err |-> <<"Finalize", written.kind>>, fs |-> fsys]
    ELSE [ok |-> TRUE, err |-> <<>>, fs |-> written.fs])))))))

(* faulty variant: bagit.txt written before the manifest *)
finalize_DeclarationFirst(fsys, root, algo, its, tgs) ==
    With(MetadataFile_write(fsys, PathJoin(root, BAGIT_TXT),
                            <<BagitVersion(1, 0), Encoding>>),
         LAMBDA w2 :
    IF ~w2.ok THEN GenResult(FALSE, <<"Finalize", w2.kind>>, fsys, its, tgs)
    ELSE
    With(write_manifest_file(w2.fs, root, manifest_name(algo),
                             [i \in 1..Len(its) |-> Payload_to_string(its[i])]),
         LAMBDA w1 :
    IF ~w1.ok THEN GenResult(FALSE, <<"Finalize", w1.kind>>, w2.fs, its, tgs)
    ELSE
    With(Append(tgs, OxumOf(its)), LAMBDA tags2 :
    With(MetadataFile_write(w1.fs, PathJoin(root, BAG_INFO_TXT), tags2), LAMBDA w3 :
    IF ~w3.ok THEN GenResult(FALSE, <<"Finalize", w3.kind>>, w1.fs, its, tags2)
    ELSE
    With(write_tagmanifest_file(w3.fs, root, algo), LAMBDA w4 :
    IF ~w4.ok THEN GenResult(FALSE, w4.err, w3.fs, its, tags2)
    ELSE GenResult(TRUE, <<>>, w4.fs, its, tags2))))))

\* BagIt::finalize
finalize(fsys, root, algo, its, tgs) ==
    With(write_manifest_file(fsys, root, manifest_name(algo),
                             [i \in 1..Len(its) |-> Payload_to_string(its[i])]),
         LAMBDA w1 :
    IF ~w1.ok THEN GenResult(FALSE, <<"Finalize", w1.kind>>, fsys, its, tgs)
    ELSE
    With(MetadataFile_write(w1.fs, PathJoin(root, BAGIT_TXT),
                            <<BagitVersion(1, 0), Encoding>>),
         LAMBDA w2 :
    IF ~w2.ok THEN GenResult(FALSE, <<"Finalize", w2.kind>>, w1.fs, its, tgs)
    ELSE
    With(Append(tgs, OxumOf(its)), LAMBDA tags2 :
    With(MetadataFile_write(w2.fs, PathJoin(root, BAG_INFO_TXT), tags2), LAMBDA w3 :
    IF ~w3.ok THEN GenResult(FALSE, <<"Finalize", w3.kind>>, w2.fs, its, tags2)
    ELSE
    With(write_tagmanifest_file(w3.fs, root, algo), LAMBDA w4 :
    IF ~w4.ok THEN GenResult(FALSE, w4.err, w3.fs, its, tags2)
    ELSE GenResult(TRUE, <<>>, w4.fs, its, tags2))))))

-----------------------------------------------------------------------------
(* payload.rs, manifest.rs, metadata/file.rs, read.rs: the bag validator   *)

LineResult(ok, err, payload, hashed) ==
    [ok |-> ok, err |-> err, payload |-> payload, hashed |-> hashed]

(* faulty variant: containment decided on the text of the paths *)
InsideBagByText(file_path, base_directory) == starts_with_text(file_path, base_directory)

\* the containment test of Payload::from_manifest
InsideBag(file_path, base_directory) == starts_with(file_path, base_directory)

\* Payload::from_manifest; hashed lists the files whose content was digested
from_manifest(fsys, algo, manifest_line, base_directory) ==
    With(split_whitespace(manifest_line), LAMBDA tokens :
    IF Len(tokens) < 2 THEN LineResult(FALSE, <<"InvalidLine">>, NoPayload, <<>>)
    ELSE
    With(tokens[1], LAMBDA checksum_from_manifest :
    With(tokens[2], LAMBDA relative_file_path :
    With(canonicalize(fsys, PathJoin(base_directory, relative_file_path)),
         LAMBDA file_path :
    IF ~file_path.ok
    THEN LineResult(FALSE, <<"Absolute", file_path.kind>>, NoPayload, <<>>)
    ELSE
    With(canonicalize(fsys, base_directory), LAMBDA base :
    IF ~base.ok THEN LineResult(FALSE, <<"Absolute", base.kind>>, NoPayload, <<>>)
    ELSE
    IF ~InsideBag(file_path.path, base.path)
    THEN LineResult(FALSE, <<"NotInsideBag">>, NoPayload, <<>>)
    ELSE
    With(compute_checksum_file(fsys, algo, file_path.path), LAMBDA checksum :
    IF ~checksum.ok
    THEN LineResult(FALSE, <<"ComputeChecksum">> \o checksum.err, NoPayload, <<>>)
    ELSE
    IF checksum.checksum # Checksum_from_str(checksum_from_manifest)
    THEN LineResult(FALSE, <<"ChecksumDiffers">>, NoPayload, <<file_path.path>>)
    ELSE LineResult(TRUE, <<>>,
                    Payload(checksum.checksum, relative_file_path,
                            FileLen(fsys, file_path.path)),
                    <<file_path.path>>)))))))

ManifestResult(ok, err, its, hashed) ==
    [ok |-> ok, err |-> err, items |-> its, hashed |-> hashed]

(* faulty variant: a line that fails is left out, the others are returned *)
RECURSIVE ValidateLinesBestEffort(_, _, _, _, _, _, _)
ValidateLinesBestEffort(fsys, algo, dir, lines, k, its, hashed) ==
    IF k > Len(lines) THEN ManifestResult(TRUE, <<>>, its, hashed)
    ELSE
    With(from_manifest(fsys, algo, lines[k], dir), LAMBDA r :
    ValidateLinesBestEffort(fsys, algo, dir, lines, k + 1,
                            IF r.ok THEN Append(its, r.payload) ELSE its,
                            hashed \o r.hashed))

\* the loop of Manifest::get_validate_payloads over the lines from the k-th
RECURSIVE ValidateLinesKeepGoing(_, _, _, _, _, _, _)
ValidateLinesKeepGoing(fsys, algo, dir, lines, k, its, hashed) ==
    IF k > Len(lines) THEN ManifestResult(TRUE, <<>>, its, hashed)
    ELSE
    With(from_manifest(fsys, algo, lines[k], dir), LAMBDA r :
    IF ~r.ok
    THEN With(ValidateLinesKeepGoing(fsys, algo, dir, lines, k + 1, its,
                                     hashed \o r.hashed),
              LAMBDA rest :
              ManifestResult(FALSE, <<"ProcessManifestLine">> \o r.err, <<>>, rest.hashed))
    ELSE ValidateLinesKeepGoing(fsys, algo, dir, lines, k + 1,
                                Append(its, r.payload), hashed \o r.hashed))

RECURSIVE ValidateLines(_, _, _, _, _, _, _)
ValidateLines(fsys, algo, dir, lines, k, its, hashed) ==
    IF k > Len(lines) THEN ManifestResult(TRUE, <<>>, its, hashed)
    ELSE
    With(from_manifest(fsys, algo, lines[k], dir), LAMBDA r :
    IF ~r.ok
    THEN ManifestResult(FALSE, <<"ProcessManifestLine">> \o r.err, <<>>,
                        hashed \o r.hashed)
    ELSE ValidateLines(fsys, algo, dir, lines, k + 1,
                       Append(its, r.payload), hashed \o r.hashed))

\* Manifest::get_validate_payloads
get_validate_payloads(fsys, algo, manifest, bag_it_directory) ==
    IF ~Readable(fsys, manifest)
    THEN ManifestResult(FALSE, <<"OpenFile">>, <<>>, <<>>)
    ELSE ValidateLines(fsys, algo, bag_it_directory, Lines(ReadFile(fsys, manifest)),
                       1, <<>>, <<>>)

(* faulty variant: a manifest of any algorithm is taken *)
Manifest_find_AnyAlgorithm(fsys, dir, files_in_directory, algo, manifest_prefix) ==
    LET manifests ==
            {f \in files_in_directory :
                /\ is_file(fsys, Append(dir, f))
                /\ strip_prefix(file_stem(f), manifest_prefix).some
                /\ extension(f) = [some |-> TRUE, ext |-> TXT]}
    IN  IF manifests = {} THEN [some |-> FALSE, path |-> <<>>]
        ELSE [some |-> TRUE, path |-> Append(dir, CHOOSE f \in manifests : TRUE)]

\* Manifest::find over the listed entries of the directory: the regular
\* files with extension txt whose stem is the prefix then the name of the
\* algorithm.  At most one name is such, so the order of the listing does
\* not matter.
Manifest_find(fsys, dir, files_in_directory, algo, manifest_prefix) ==
    LET manifests ==
            {f \in files_in_directory :
                /\ is_file(fsys, Append(dir, f))
                /\ strip_prefix(file_stem(f), manifest_prefix).some
                /\ extension(f) = [some |-> TRUE, ext |-> TXT]}
        named == {f \in manifests : strip_prefix(file_stem(f), manifest_prefix).rest = algo}
    IN  IF named = {} THEN [some |-> FALSE, path |-> <<>>]
        ELSE [some |-> TRUE, path |-> Append(dir, CHOOSE f \in named : TRUE)]

(* faulty variant: a line that does not parse is skipped *)
RECURSIVE ReadTagsSkipping(_, _, _)
ReadTagsSkipping(lines, k, tgs) ==
    IF k > Len(lines) THEN [ok |-> TRUE, err |-> <<>>, tags |-> tgs]
    ELSE
    With(from_str(lines[k]), LAMBDA r :
    IF ~r.ok THEN ReadTagsSkipping(lines, k + 1, tgs)
    ELSE ReadTagsSkipping(lines, k + 1, Append(tgs, r.tag)))

\* MetadataFile::read: the first line that does not parse is the error
RECURSIVE ReadTags(_, _, _)
ReadTags(lines, k, tgs) ==
    IF k > Len(lines) THEN [ok |-> TRUE, err |-> <<>>, tags |-> tgs]
    ELSE
    With(from_str(lines[k]), LAMBDA r :
    IF ~r.ok THEN [ok |-> FALSE, err |-> <<"Metadata">> \o r.err, tags |-> <<>>]
    ELSE ReadTags(lines, k + 1, Append(tgs, r.tag)))

MetadataFile_read(fsys, path) ==
    IF ~Readable(fsys, path) THEN [ok |-> FALSE, err |-> <<"ReadFile">>, tags |-> <<>>]
    ELSE ReadTags(Lines(ReadFile(fsys, path)), 1, <<>>)

(* faulty variant: the octet count is compared before the stream count *)
OxumCheckOctetFirst(tgs, payloads) ==
    LET Bad(i) == /\ tgs[i].kind = "PayloadOctetStreamSummary"
                  /\ (tgs[i].n2 # Len(payloads) \/ tgs[i].n1 # SumBytes(payloads))
        bad == {i \in 1..Len(tgs) : Bad(i)}
    IN  IF bad = {} THEN <<>>
        ELSE IF tgs[Min(bad)].n1 # SumBytes(payloads)
        THEN <<"BagInfoOxum", "octet_count">>
        ELSE <<"BagInfoOxum", "stream_count">>

\* the check of the Payload-Oxum tags in read_existing: the first tag, in
\* file order, that disagrees with the validated payloads
OxumCheck(tgs, payloads) ==
    LET Bad(i) == /\ tgs[i].kind = "PayloadOctetStreamSummary"
                  /\ (tgs[i].n2 # Len(payloads) \/ tgs[i].n1 # SumBytes(payloads))
        bad == {i \in 1..Len(tgs) : Bad(i)}
    IN  IF bad = {} THEN <<>>
        ELSE IF tgs[Min(bad)].n2 # Len(payloads)
        THEN <<"BagInfoOxum", "stream_count">>
        ELSE <<"BagInfoOxum", "octet_count">>

(* faulty variant: the Bag is returned without the summary tag *)
ReadResultSansSummary(ok, err, its, tgs, hashed, stages) ==
    [ok |-> ok, err |-> err, items |-> its,
     tags |-> SelectSeq(tgs, LAMBDA t : t.kind # "PayloadOctetStreamSummary"),
     hashed |-> hashed, stages |-> stages]

ReadResult(ok, err, its, tgs, hashed, stages) ==
    [ok |-> ok, err |-> err, items |-> its, tags |-> tgs, hashed |-> hashed,
     stages |-> stages]

ReadError(err, hashed, stages) == ReadResult(FALSE, err, <<>>, <<>>, hashed, stages)

StageOrder ==
    <<"DirectoryCheck", "DeclarationCheck", "InfoLoad", "DirectoryListing",
      "ManifestResolve", "PayloadValidate", "OxumCrossCheck", "TagManifestValidate">>

(* faulty variant: the number of tags of bagit.txt is not checked *)
DeclarationErrorNoCount(tgs) ==
    IF Len(tgs) < 1 \/ tgs[1].kind # "BagitVersion"
    THEN <<"BagDeclaration", "Tag", "BagIt-Version">>
    ELSE IF Len(tgs) < 2 \/ tgs[2].kind # "Encoding"
    THEN <<"BagDeclaration", "Tag", "Tag-File-Character-Encoding">>
    ELSE <<>>

(* faulty variant: only version 1.0 is taken *)
DeclarationErrorVersionOne(tgs) ==
    IF Len(tgs) < 1 \/ tgs[1] # BagitVersion(1, 0)
    THEN <<"BagDeclaration", "Tag", "BagIt-Version">>
    ELSE IF Len(tgs) < 2 \/ tgs[2].kind # "Encoding"
    THEN <<"BagDeclaration", "Tag", "Tag-File-Character-Encoding">>
    ELSE IF Len(tgs) > 2 THEN <<"BagDeclaration", "NumberTags">>
    ELSE <<>>

\* the shape check of bagit.txt in read_existing
DeclarationError(tgs) ==
    IF Len(tgs) < 1 \/ tgs[1].kind # "BagitVersion"
    THEN <<"BagDeclaration", "Tag", "BagIt-Version">>
    ELSE IF Len(tgs) < 2 \/ tgs[2].kind # "Encoding"
    THEN <<"BagDeclaration", "Tag", "Tag-File-Character-Encoding">>
    ELSE IF Len(tgs) > 2 THEN <<"BagDeclaration", "NumberTags">>
    ELSE <<>>

(* faulty variant: a tag manifest is found and not validated *)
read_existing_SansTagManifest(fsys, dir, algo) ==
    IF ~is_dir(fsys, dir) THEN ReadError(<<"NotDirectory">>, <<>>, SubSeq(StageOrder, 1, 1))
    ELSE
    IF ~exists(fsys, Append(dir, BAGIT_TXT))
    THEN ReadError(<<"BagDeclaration", "Missing">>, <<>>, SubSeq(StageOrder, 1, 2))
    ELSE
    With(MetadataFile_read(fsys, Append(dir, BAGIT_TXT)), LAMBDA bagit_file :
    IF ~bagit_file.ok
    THEN ReadError(<<"BagDeclaration">> \o bagit_file.err, <<>>, SubSeq(StageOrder, 1, 2))
    ELSE
    With(DeclarationError(bagit_file.tags), LAMBDA declaration :
    IF declaration # <<>>
    THEN ReadError(declaration, <<>>, SubSeq(StageOrder, 1, 2))
    ELSE
    With(exists(fsys, Append(dir, BAG_INFO_TXT)), LAMBDA has_info :
    With(IF has_info THEN MetadataFile_read(fsys, Append(dir, BAG_INFO_TXT))
         ELSE [ok |-> TRUE, err |-> <<>>, tags |-> <<>>],
         LAMBDA bag_info :
    IF ~bag_info.ok
    THEN ReadError(<<"BagInfo">> \o bag_info.err, <<>>, SubSeq(StageOrder, 1, 3))
    ELSE
    With(read_dir(fsys, canonicalize(fsys, dir).path), LAMBDA files_in_dir :
    With(Manifest_find(fsys, dir, files_in_dir, algo, MANIFEST_PREFIX), LAMBDA manifest :
    IF ~manifest.some
    THEN ReadError(<<"NotRequestedAlgorithm">>, <<>>, SubSeq(StageOrder, 1, 5))
    ELSE
    With(get_validate_payloads(fsys, algo, manifest.path, dir), LAMBDA payloads :
    IF ~payloads.ok
    THEN ReadError(payloads.err, payloads.hashed, SubSeq(StageOrder, 1, 6))
    ELSE
    With(IF has_info THEN OxumCheck(bag_info.tags, payloads.items) ELSE <<>>,
         LAMBDA oxum :
    With(IF has_info THEN SubSeq(StageOrder, 1, 7) ELSE SubSeq(StageOrder, 1, 6),
         LAMBDA upto7 :
    IF oxum # <<>> THEN ReadError(oxum, payloads.hashed, upto7)
    ELSE
    With(Manifest_find(fsys, dir, files_in_dir, algo, TAGMANIFEST_PREFIX),
         LAMBDA tag_manifest :
    With(ManifestResult(TRUE, <<>>, <<>>, <<>>), LAMBDA checked :
    With(Append(upto7, StageOrder[8]), LAMBDA upto8 :
    IF ~checked.ok
    THEN ReadError(checked.err, payloads.hashed \o checked.hashed, upto8)
    ELSE ReadResult(TRUE, <<>>, payloads.items, bag_info.tags,
                    payloads.hashed \o checked.hashed, upto8)))))))))))))

\* BagIt::read_existing; stages lists the stages entered, hashed the files
\* digested
read_existing(fsys, dir, algo) ==
    IF ~is_dir(fsys, dir) THEN ReadError(<<"NotDirectory">>, <<>>, SubSeq(StageOrder, 1, 1))
    ELSE
    IF ~exists(fsys, Append(dir, BAGIT_TXT))
    THEN ReadError(<<"BagDeclaration", "Missing">>, <<>>, SubSeq(StageOrder, 1, 2))
    ELSE
    With(MetadataFile_read(fsys, Append(dir, BAGIT_TXT)), LAMBDA bagit_file :
    IF ~bagit_file.ok
    THEN ReadError(<<"BagDeclaration">> \o bagit_file.err, <<>>, SubSeq(StageOrder, 1, 2))
    ELSE
    With(DeclarationError(bagit_file.tags), LAMBDA declaration :
    IF declaration # <<>>
    THEN ReadError(declaration, <<>>, SubSeq(StageOrder, 1, 2))
    ELSE
    With(exists(fsys, Append(dir, BAG_INFO_TXT)), LAMBDA has_info :
    With(IF has_info THEN MetadataFile_read(fsys, Append(dir, BAG_INFO_TXT))
         ELSE [ok |-> TRUE, err |-> <<>>, tags |-> <<>>],
         LAMBDA bag_info :
    IF ~bag_info.ok
    THEN ReadError(<<"BagInfo">> \o bag_info.err, <<>>, SubSeq(StageOrder, 1, 3))
    ELSE
    With(read_dir(fsys, canonicalize(fsys, dir).path), LAMBDA files_in_dir :
    With(Manifest_find(fsys, dir, files_in_dir, algo, MANIFEST_PREFIX), LAMBDA manifest :
    IF ~manifest.some
    THEN ReadError(<<"NotRequestedAlgorithm">>, <<>>, SubSeq(StageOrder, 1, 5))
    ELSE
    With(get_validate_payloads(fsys, algo, manifest.path, dir), LAMBDA payloads :
    IF ~payloads.ok
    THEN ReadError(payloads.err, payloads.hashed, SubSeq(StageOrder, 1, 6))
    ELSE
    With(IF has_info THEN OxumCheck(bag_info.tags, payloads.items) ELSE <<>>,
         LAMBDA oxum :
    With(IF has_info THEN SubSeq(StageOrder, 1, 7) ELSE SubSeq(StageOrder, 1, 6),
         LAMBDA upto7 :
    IF oxum # <<>> THEN ReadError(oxum, payloads.hashed, upto7)
    ELSE
    With(Manifest_find(fsys, dir, files_in_dir, algo, TAGMANIFEST_PREFIX),
         LAMBDA tag_manifest :
    With(IF tag_manifest.some
         THEN get_validate_payloads(fsys, algo, tag_manifest.path, dir)
         ELSE ManifestResult(TRUE, <<>>, <<>>, <<>>),
         LAMBDA checked :
    With(Append(upto7, StageOrder[8]), LAMBDA upto8 :
    IF ~checked.ok
    THEN ReadError(checked.err, payloads.hashed \o checked.hashed, upto8)
    ELSE ReadResult(TRUE, <<>>, payloads.items, bag_info.tags,
                    payloads.hashed \o checked.hashed, upto8)))))))))))))

-----------------------------------------------------------------------------
(* The disk before the bag is assembled, and the callers' inputs           *)

Root == <<<<"b","a","g">>>>
SrcA == <<<<"s","r","c">>, <<"a">>>>
SrcB == <<<<"s","r","c">>, <<"b">>>>
SrcSpaced == <<<<"s","r","c">>, <<"a"," ","b">>>>
SrcMissing == <<<<"s","r","c">>, <<"n","o","n","e">>>>
Secret == <<<<"s","e","c","r","e","t">>>>
Sibling == <<<<"b","a","g","2">>>>

\* source files of 1 and 2 bytes, one more with a space in its name; a file
\* outside the bag, and one whose path has the text of the root as a prefix
BaseFs ==
    (<<>> :> Dir)
    @@ (<<<<"s","r","c">>>> :> Dir)
    @@ (SrcA :> File(<<"x">>))
    @@ (SrcB :> File(<<"y","y">>))
    @@ (SrcSpaced :> File(<<"x">>))
    @@ (Secret :> File(<<"s">>))
    @@ (Sibling :> File(<<"s">>))

Sources == {SrcA, SrcB, SrcSpaced, SrcMissing}

ReadDirs == {Root, Secret}
Algorithms == {SHA256, MD5}

MaxAdd == 2
MaxFinalize == 2
MaxRead == 2

Ok == <<"Ok">>

NoParse == [ok |-> FALSE, err |-> <<"NotRun">>, tag |-> NoTag]

NoRead == ReadResult(FALSE, <<"NotRun">>, <<>>, <<>>, <<>>, <<>>)

\* Manifest::find has not been called
NoFind == [listing |-> <<>>, called |-> FALSE, prefix |-> <<>>, algo |-> <<>>,
           manifest |-> [some |-> FALSE, path |-> <<>>]]

\* no finalize is running
NoJoin == [pc |-> "idle", at |-> <<>>, buffer |-> <<>>, sums |-> <<>>,
           order |-> <<>>, before |-> <<>>]

\* BagIt::new_empty(Root, SHA256): no payload, no tag, nothing done on disk;
\* the directory may or may not exist yet
Init ==
    /\ fs \in {BaseFs, (Root :> Dir) @@ BaseFs}
    /\ items = <<>>
    /\ tags = <<>>
    /\ genRes = Ok
    /\ lastOp = "new_empty"
    /\ clean = TRUE
    /\ sealed = FALSE
    /\ nAdd = 0
    /\ added = <<>>
    /\ nFin = 0
    /\ readRes = NoRead
    /\ readArgs = <<>>
    /\ nRead = 0
    /\ nTamper = 0
    /\ tampered = {}
    /\ tag = NoTag
    /\ line = <<>>
    /\ parsed = NoParse
    /\ tpc = "unused"
    /\ join = NoJoin
    /\ found = NoFind

\* a call of bag.add_file(file)
AddFile(file) ==
    /\ nRead = 0
    /\ nTamper = 0
    /\ nAdd < MaxAdd
    /\ LET r == add_file(fs, Root, SHA256, items, tags, file)
       IN  /\ fs' = r.fs
           /\ items' = r.items
           /\ tags' = r.tags
           /\ genRes' = IF r.ok THEN Ok ELSE r.err
           /\ clean' = (clean /\ r.ok)
           /\ added' = IF r.ok THEN Append(added, file) ELSE added
    /\ lastOp' = "add_file"
    /\ sealed' = FALSE
    /\ nAdd' = nAdd + 1
    /\ UNCHANGED <<nFin, readRes, readArgs, nRead, nTamper, tampered>>
    /\ UNCHANGED tagVars

\* a call of bag.finalize()
Finalize ==
    /\ nRead = 0
    /\ nTamper = 0
    /\ nFin < MaxFinalize
    /\ LET r == finalize(fs, Root, SHA256, items, tags)
       IN  /\ fs' = r.fs
           /\ items' = r.items
           /\ tags' = r.tags
           /\ genRes' = IF r.ok THEN Ok ELSE r.err
           /\ clean' = (clean /\ r.ok)
           /\ sealed' = r.ok
    /\ lastOp' = "finalize"
    /\ nFin' = nFin + 1
    /\ UNCHANGED <<nAdd, added, readRes, readArgs, nRead, nTamper, tampered>>
    /\ UNCHANGED tagVars

(* faulty variant: a read that removes the tag manifest it has validated *)
ReadExistingConsuming(dir, algo) ==
    /\ nRead < MaxRead
    /\ readRes' = read_existing(fs, dir, algo)
    /\ fs' = [p \in DOMAIN fs \ {Append(dir, tagmanifest_name(algo))} |-> fs[p]]
    /\ readArgs' = <<dir, algo>>
    /\ lastOp' = "read_existing"
    /\ nRead' = nRead + 1
    /\ UNCHANGED <<items, tags, genRes, clean, sealed, nAdd, added, nFin, nTamper, tampered>>
    /\ UNCHANGED tagVars

\* a call of BagIt::read_existing(dir, algo)
ReadExisting(dir, algo) ==
    /\ nRead < MaxRead
    /\ readRes' = read_existing(fs, dir, algo)
    /\ readArgs' = <<dir, algo>>
    /\ lastOp' = "read_existing"
    /\ nRead' = nRead + 1
    /\ UNCHANGED <<fs, items, tags, genRes, clean, sealed, nAdd, added, nFin, nTamper, tampered>>
    /\ UNCHANGED tagVars

Next ==
    \/ \E file \in Sources : AddFile(file)
    \/ Finalize
    \/ \E dir \in ReadDirs, algo \in Algorithms : ReadExisting(dir, algo)

Spec == Init /\ [][Next]_vars

-----------------------------------------------------------------------------
(* Claims about the assembler, checked under Spec                          *)

\* the file a payload entry of the bag names
PayloadFile(p) == PathJoin(Root, p.relative_path)

DistinctNames(its) ==
    \A i, j \in 1..Len(its) : its[i].relative_path = its[j].relative_path => i = j

RECURSIVE SumOnDisk(_, _)
SumOnDisk(fsys, its) ==
    IF its = <<>> THEN 0
    ELSE FileLen(fsys, PayloadFile(its[1])) + SumOnDisk(fsys, Tail(its))

LastLine(fsys, path) ==
    LET ls == Lines(ReadFile(fsys, path)) IN IF ls = <<>> THEN <<>> ELSE ls[Len(ls)]

\* C1: after successful add_file calls on source files with distinct names
\* and one successful finalize, read_existing of the same directory with the
\* same algorithm succeeds, and its payload list equals the assembler's
\* list in order, element by element on (relative_path, checksum, bytes).
C1_RoundTrip ==
    (/\ lastOp = "read_existing"
     /\ readArgs = <<Root, SHA256>>
     /\ clean /\ sealed /\ nFin = 1
     /\ DistinctNames(items))
    => /\ readRes.ok
       /\ readRes.items = items

\* C4: at the return of a successful finalize, after any sequence of
\* add_file and finalize calls, the manifest and bagit.txt exist, every
\* payload of the bag is a file under the bag directory whose digest is
\* the recorded checksum, and every
\* Payload-Oxum tag has the number of payloads as its stream count and the
\* sum of their sizes on disk as its octet count.
C4_FinalizedBag ==
    (lastOp = "finalize" /\ genRes = Ok)
    => /\ is_file(fs, Append(Root, manifest_name(SHA256)))
       /\ is_file(fs, Append(Root, BAGIT_TXT))
       /\ \A i \in 1..Len(items) :
            /\ is_file(fs, PayloadFile(items[i]))
            /\ items[i].checksum = Checksum_digest(SHA256, ReadFile(fs, PayloadFile(items[i])))
       /\ \A i \in 1..Len(tags) :
            tags[i].kind = "PayloadOctetStreamSummary"
                => /\ tags[i].n2 = Len(items)
                   /\ tags[i].n1 = SumOnDisk(fs, items)

\* C7: a successful finalize appends to the tags one Payload-Oxum tag whose
\* stream count is the number of payloads and whose octet count is the sum
\* of their bytes fields, and bag-info.txt ends with the line
\* "Payload-Oxum: <octets>.<streams>".
C7_FinalizeAppendsOxum ==
    [][(lastOp' = "finalize" /\ genRes' = Ok)
        => /\ tags' = Append(tags, PayloadOctetStreamSummary(SumBytes(items), Len(items)))
           /\ LastLine(fs', Append(Root, BAG_INFO_TXT))
                = KEY_OXUM \o <<":", " ">> \o DecimalString(SumBytes(items))
                    \o <<".">> \o DecimalString(Len(items))]_vars

\* payloads of 1 and 2 bytes: the line written is "Payload-Oxum: 3.2"
C7_Witness ==
    /\ lastOp = "finalize" /\ genRes = Ok
    /\ [i \in 1..Len(items) |-> items[i].bytes] = <<1, 2>>
    /\ tags = <<PayloadOctetStreamSummary(3, 2)>>
    /\ LastLine(fs, Append(Root, BAG_INFO_TXT))
            = <<"P","a","y","l","o","a","d","-","O","x","u","m",":"," ","3",".","2">>

-----------------------------------------------------------------------------
(* SpecRead: a bag of two payloads, assembled and finalized by the library, *)
(* is changed on disk behind the library and then read.                     *)

MaxTamper == 2

\* new_empty; add_file(/src/a); add_file(/src/b); finalize
SealedBag ==
    With(add_file(BaseFs, Root, SHA256, <<>>, <<>>, SrcA), LAMBDA r1 :
    With(add_file(r1.fs, Root, SHA256, r1.items, r1.tags, SrcB), LAMBDA r2 :
    finalize(r2.fs, Root, SHA256, r2.items, r2.tags)))

InitRead ==
    /\ fs = SealedBag.fs
    /\ items = SealedBag.items
    /\ tags = SealedBag.tags
    /\ genRes = Ok
    /\ lastOp = "finalize"
    /\ clean = TRUE
    /\ sealed = TRUE
    /\ nAdd = Len(SealedBag.items)
    /\ added = <<SrcA, SrcB>>
    /\ nFin = 1
    /\ readRes = NoRead
    /\ readArgs = <<>>
    /\ nRead = 0
    /\ nTamper = 0
    /\ tampered = {}
    /\ tag = NoTag
    /\ line = <<>>
    /\ parsed = NoParse
    /\ tpc = "unused"
    /\ join = NoJoin
    /\ found = NoFind

\* a change of the disk by something else than the library, before the bag
\* is read
Tamper(newfs, changed) ==
    /\ nRead = 0
    /\ nTamper < MaxTamper
    /\ fs' = newfs
    /\ tampered' = tampered \cup changed
    /\ lastOp' = "tamper"
    /\ nTamper' = nTamper + 1
    /\ UNCHANGED <<items, tags, genRes, clean, sealed, nAdd, added, nFin, readRes, readArgs, nRead>>
    /\ UNCHANGED tagVars

\* the content of the i-th payload file is replaced
TamperPayload(i) ==
    Tamper(WriteFile(fs, PayloadFile(items[i]), <<"!">>).fs, {PayloadFile(items[i])})

OxumLine(octets, streams) == Metadata_to_string(PayloadOctetStreamSummary(octets, streams))

\* bag-info.txt rewritten: a wrong octet count, a wrong stream count, both
\* wrong, a tag with a wrong octet count before one with a wrong stream
\* count, a right tag before a wrong one, a value that is no pair of numbers
InfoEdits ==
    LET o == SumBytes(items)
        s == Len(items)
    IN  {<<OxumLine(o + 1, s)>>, <<OxumLine(o, s + 1)>>, <<OxumLine(o + 1, s + 1)>>,
         <<OxumLine(o + 1, s), OxumLine(o, s + 1)>>,
         <<OxumLine(o, s), OxumLine(o + 1, s + 1)>>,
         <<KEY_OXUM \o <<":", " ", "x">>>>}

TamperInfo(lines) ==
    Tamper(WriteFile(fs, Append(Root, BAG_INFO_TXT), JoinLines(lines)).fs, {})

VersionLine == Metadata_to_string(BagitVersion(1, 0))
EncodingLine == Metadata_to_string(Encoding)

\* bagit.txt rewritten: one tag only, a third tag, the two tags exchanged,
\* no tag, another version, a custom tag in the place of either tag
DeclarationEdits ==
    {<<VersionLine>>,
     <<VersionLine, EncodingLine, <<"N", ":", " ", "n">>>>,
     <<EncodingLine, VersionLine>>,
     <<>>,
     <<Metadata_to_string(BagitVersion(0, 97)), EncodingLine>>,
     <<<<"N", ":", " ", "n">>, EncodingLine>>,
     <<VersionLine, <<"N", ":", " ", "n">>>>}

TamperDeclaration(lines) ==
    Tamper(WriteFile(fs, Append(Root, BAGIT_TXT), JoinLines(lines)).fs, {})

TagFiles == {BAGIT_TXT, BAG_INFO_TXT, manifest_name(SHA256), tagmanifest_name(SHA256)}

\* a file of the bag directory is removed
RemoveFile(name) ==
    /\ Append(Root, name) \in DOMAIN fs
    /\ Tamper([p \in DOMAIN fs \ {Append(Root, name)} |-> fs[p]], {})

\* the manifest is replaced by a directory of the same name
ManifestBecomesDirectory ==
    /\ Append(Root, manifest_name(SHA256)) \in DOMAIN fs
    /\ Tamper([fs EXCEPT ![Append(Root, manifest_name(SHA256))] = Dir], {})

LinkName == <<"l", "i", "n", "k">>

\* path texts that lead out of the bag directory: through "..", as an
\* absolute path, to a sibling whose name starts with the name of the bag,
\* through a symbolic link in data/
Escapes ==
    {<<".", ".", "/">> \o Secret[1],
     <<"/">> \o Secret[1],
     <<".", ".", "/">> \o Sibling[1],
     DATA_DIR \o LinkName}

\* a line is appended to a manifest: the true digest of the file outside
\* the bag, then a path text that leads to it
AppendLine(name, target) ==
    /\ is_file(fs, Append(Root, name))
    /\ Tamper(WriteFile((PathJoin(Root, DATA_DIR \o LinkName) :> Link(Secret)) @@ fs,
                        Append(Root, name),
                        ReadFile(fs, Append(Root, name)) \o <<"\n">>
                            \o Checksum_digest(SHA256, ReadFile(fs, Secret))
                            \o <<" ">> \o target).fs,
              {})

NextRead ==
    \/ \E i \in 1..Len(items) : TamperPayload(i)
    \/ \E lines \in InfoEdits : TamperInfo(lines)
    \/ \E lines \in DeclarationEdits : TamperDeclaration(lines)
    \/ \E name \in TagFiles : RemoveFile(name)
    \/ ManifestBecomesDirectory
    \/ \E name \in {manifest_name(SHA256), tagmanifest_name(SHA256)}, target \in Escapes :
            AppendLine(name, target)
    \/ \E dir \in ReadDirs, algo \in Algorithms : ReadExisting(dir, algo)

SpecRead == InitRead /\ [][NextRead]_vars

-----------------------------------------------------------------------------
(* Claims about the validator, checked under SpecRead.  They are stated    *)
(* on the disk as it is when read_existing is called, which is the disk    *)
(* of the state after the call.                                            *)

ReadDir == readArgs[1]
ReadAlgo == readArgs[2]

HasFile(name) == is_file(fs, Append(ReadDir, name))
LinesOf(name) == Lines(ReadFile(fs, Append(ReadDir, name)))

\* the k-th line of a manifest, looked at without Payload::from_manifest
Tokens(name, k) == split_whitespace(LinesOf(name)[k])
Target(name, k) == canonicalize(fs, PathJoin(ReadDir, Tokens(name, k)[2]))

LineEscapes(name, k) ==
    /\ Len(Tokens(name, k)) >= 2
    /\ Target(name, k).ok
    /\ ~starts_with(Target(name, k).path, canonicalize(fs, ReadDir).path)

LineIntact(name, k) ==
    /\ Len(Tokens(name, k)) >= 2
    /\ Target(name, k).ok
    /\ starts_with(Target(name, k).path, canonicalize(fs, ReadDir).path)
    /\ fs[Target(name, k).path].kind = "file"
    /\ Checksum_digest(ReadAlgo, fs[Target(name, k).path].content) = Tokens(name, k)[1]

\* the line names a payload file whose content was changed, and no longer
\* has its digest
LineTampered(name, k) ==
    /\ Len(Tokens(name, k)) >= 2
    /\ Target(name, k).ok
    /\ Target(name, k).path \in tampered
    /\ fs[Target(name, k).path].kind = "file"
    /\ Checksum_digest(ReadAlgo, fs[Target(name, k).path].content) # Tokens(name, k)[1]

\* what each stage of read_existing requires of the disk
DirectoryFails == ~is_dir(fs, ReadDir)

DeclarationFails ==
    \/ ~HasFile(BAGIT_TXT)
    \/ LET ls == LinesOf(BAGIT_TXT)
       IN  ~(/\ Len(ls) = 2
             /\ from_str(ls[1]).tag.kind = "BagitVersion"
             /\ from_str(ls[2]).tag.kind = "Encoding")

HasInfo == exists(fs, Append(ReadDir, BAG_INFO_TXT))

InfoFails ==
    /\ HasInfo
    /\ \/ ~HasFile(BAG_INFO_TXT)
       \/ \E k \in 1..Len(LinesOf(BAG_INFO_TXT)) : ~from_str(LinesOf(BAG_INFO_TXT)[k]).ok

ManifestFails == ~HasFile(manifest_name(ReadAlgo))

LinesFail(name) ==
    /\ HasFile(name)
    /\ \E k \in 1..Len(LinesOf(name)) :
            ~from_manifest(fs, ReadAlgo, LinesOf(name)[k], ReadDir).ok

RECURSIVE SumTargets(_, _)
SumTargets(name, k) ==
    IF k = 0 THEN 0
    ELSE Len(fs[Target(name, k).path].content) + SumTargets(name, k - 1)

InfoTags ==
    [k \in 1..Len(LinesOf(BAG_INFO_TXT)) |-> from_str(LinesOf(BAG_INFO_TXT)[k]).tag]

\* the Payload-Oxum tags of bag-info.txt that disagree with the manifest
WrongOxums ==
    LET n == Len(LinesOf(manifest_name(ReadAlgo)))
    IN  {i \in 1..Len(InfoTags) :
            /\ InfoTags[i].kind = "PayloadOctetStreamSummary"
            /\ \/ InfoTags[i].n2 # n
               \/ InfoTags[i].n1 # SumTargets(manifest_name(ReadAlgo), n)}

FailingStages ==
    (IF DirectoryFails THEN {1} ELSE {})
    \cup (IF DeclarationFails THEN {2} ELSE {})
    \cup (IF InfoFails THEN {3} ELSE {})
    \cup (IF ManifestFails THEN {5} ELSE {})
    \cup (IF LinesFail(manifest_name(ReadAlgo)) THEN {6} ELSE {})
    \cup (IF /\ HasInfo /\ ~InfoFails /\ ~ManifestFails
             /\ ~LinesFail(manifest_name(ReadAlgo)) /\ WrongOxums # {}
          THEN {7} ELSE {})
    \cup (IF LinesFail(tagmanifest_name(ReadAlgo)) THEN {8} ELSE {})

\* the variants of ReadError each stage returns
ErrorsOfStage ==
    <<{"NotDirectory"}, {"BagDeclaration"}, {"BagInfo"}, {"ListChecksumFiles"},
      {"NotRequestedAlgorithm"}, {"OpenFile", "ReadLine", "ProcessManifestLine"},
      {"BagInfoOxum"}, {"OpenFile", "ReadLine", "ProcessManifestLine"}>>

\* the stages entered when the last one is the m-th: all up to it, the
\* Payload-Oxum check only with a bag-info.txt
StagesUpTo(m) ==
    SelectSeq(SubSeq(StageOrder, 1, m), LAMBDA s : s # "OxumCrossCheck" \/ HasInfo \/ m = 7)

\* C2 (as stated): once the content of one payload file was changed after
\* finalize, read_existing fails with ProcessManifestLine(ChecksumDiffers)
\* and every other payload listed in the manifest is still checksummed.
C2_EveryOtherPayloadChecksummed ==
    (/\ lastOp = "read_existing"
     /\ readArgs = <<Root, SHA256>>
     /\ nTamper = 1
     /\ \E i \in 1..Len(items) : tampered = {PayloadFile(items[i])})
    => /\ readRes.err = <<"ProcessManifestLine", "ChecksumDiffers">>
       /\ \A i \in 1..Len(items) :
            \E h \in 1..Len(readRes.hashed) : readRes.hashed[h] = PayloadFile(items[i])

\* C2 (amended): when read_existing validates the manifest and its k-th
\* line names a payload file whose content was changed and no longer has
\* the digest of the line, every line before it being intact, the call
\* fails with ProcessManifestLine(ChecksumDiffers), the files of the lines
\* 1..k have been checksummed in order, and no file of a later line has.
C2_StopsAtTamperedLine ==
    (/\ lastOp = "read_existing"
     /\ ~DirectoryFails /\ ~DeclarationFails /\ ~InfoFails /\ ~ManifestFails)
    => \A k \in 1..Len(LinesOf(manifest_name(ReadAlgo))) :
            (/\ LineTampered(manifest_name(ReadAlgo), k)
             /\ \A j \in 1..(k - 1) : LineIntact(manifest_name(ReadAlgo), j))
            => /\ readRes.err = <<"ProcessManifestLine", "ChecksumDiffers">>
               /\ readRes.hashed
                    = [j \in 1..k |-> Target(manifest_name(ReadAlgo), j).path]

\* the first of two payloads was changed: the second is not checksummed
C2_Witness ==
    /\ lastOp = "read_existing"
    /\ readArgs = <<Root, SHA256>>
    /\ tampered = {PayloadFile(items[1])}
    /\ Len(LinesOf(manifest_name(SHA256))) = 2
    /\ LineTampered(manifest_name(SHA256), 1)
    /\ readRes.err = <<"ProcessManifestLine", "ChecksumDiffers">>
    /\ readRes.hashed = <<PayloadFile(items[1])>>

\* C3: a manifest or tag manifest line whose path resolves outside the
\* canonical bag directory fails with NotInsideBag without the file being
\* digested, and no read_existing digests a file outside the directory.
C3_Containment ==
    lastOp = "read_existing" /\ ~DirectoryFails
    => /\ \A name \in {manifest_name(ReadAlgo), tagmanifest_name(ReadAlgo)} :
            HasFile(name) =>
                \A k \in 1..Len(LinesOf(name)) :
                    LineEscapes(name, k)
                    => from_manifest(fs, ReadAlgo, LinesOf(name)[k], ReadDir)
                            = LineResult(FALSE, <<"NotInsideBag">>, NoPayload, <<>>)
       /\ \A h \in 1..Len(readRes.hashed) :
            starts_with(readRes.hashed[h], canonicalize(fs, ReadDir).path)
       /\ (/\ ~DeclarationFails /\ ~InfoFails /\ ~ManifestFails
           /\ \E k \in 1..Len(LinesOf(manifest_name(ReadAlgo))) :
                /\ LineEscapes(manifest_name(ReadAlgo), k)
                /\ \A j \in 1..(k - 1) : LineIntact(manifest_name(ReadAlgo), j))
          => readRes.err = <<"ProcessManifestLine", "NotInsideBag">>

\* a symbolic link in data/ leads to a file outside the bag
C3_Witness ==
    /\ lastOp = "read_existing"
    /\ readArgs = <<Root, SHA256>>
    /\ Len(LinesOf(manifest_name(SHA256))) = 3
    /\ Tokens(manifest_name(SHA256), 3)[2] = DATA_DIR \o LinkName
    /\ Target(manifest_name(SHA256), 3).path = Secret
    /\ readRes.err = <<"ProcessManifestLine", "NotInsideBag">>
    /\ readRes.hashed = <<PayloadFile(items[1]), PayloadFile(items[2])>>

\* C5: read_existing runs its stages in the fixed order and stops at the
\* first one that fails: the error is the one of the earliest failing
\* stage, and no later stage is entered.
C5_EarliestFailingStage ==
    lastOp = "read_existing"
    => IF FailingStages = {}
       THEN readRes.ok /\ readRes.stages = StagesUpTo(8)
       ELSE /\ ~readRes.ok
            /\ readRes.err[1] \in ErrorsOfStage[Min(FailingStages)]
            /\ readRes.stages = StagesUpTo(Min(FailingStages))

\* bagit.txt and the manifest are both missing, and bag-info.txt holds a
\* wrong Payload-Oxum: the error is the one of the declaration
C5_Witness ==
    /\ lastOp = "read_existing"
    /\ readArgs = <<Root, SHA256>>
    /\ {2, 5} \subseteq FailingStages
    /\ readRes.err = <<"BagDeclaration", "Missing">>
    /\ readRes.stages = <<"DirectoryCheck", "DeclarationCheck">>

\* C6: in a directory with a valid bagit.txt and a readable bag-info.txt
\* (or none), without a regular file manifest-<algo>.txt for the requested
\* algorithm, read_existing fails with NotRequestedAlgorithm.
C6_NotRequestedAlgorithm ==
    (/\ lastOp = "read_existing"
     /\ ~DirectoryFails /\ ~DeclarationFails /\ ~InfoFails
     /\ ~is_file(fs, Append(ReadDir, MANIFEST_PREFIX \o ReadAlgo \o <<".", "t", "x", "t">>)))
    => readRes.err = <<"NotRequestedAlgorithm">>

\* a bag finalized with sha256 is read with md5
C6_Witness ==
    /\ lastOp = "read_existing"
    /\ readArgs = <<Root, MD5>>
    /\ is_file(fs, Append(Root, manifest_name(SHA256)))
    /\ readRes.err = <<"NotRequestedAlgorithm">>

\* C8: when every manifest line validates and bag-info.txt holds a
\* Payload-Oxum tag that disagrees with the validated payloads, the first
\* such tag decides: BagInfoOxum("stream_count") when its stream count is
\* not the number of payloads, else BagInfoOxum("octet_count"); the tag
\* manifest is not looked at.
C8_OxumBeforeTagManifest ==
    (/\ lastOp = "read_existing"
     /\ ~DirectoryFails /\ ~DeclarationFails /\ HasInfo /\ ~InfoFails
     /\ ~ManifestFails /\ ~LinesFail(manifest_name(ReadAlgo))
     /\ WrongOxums # {})
    => /\ readRes.err =
            <<"BagInfoOxum",
              IF InfoTags[Min(WrongOxums)].n2 # Len(LinesOf(manifest_name(ReadAlgo)))
              THEN "stream_count" ELSE "octet_count">>
       /\ \A s \in 1..Len(readRes.stages) : readRes.stages[s] # "TagManifestValidate"

\* both counts of the tag are wrong, and the tag manifest no longer has the
\* digest of bag-info.txt
C8_Witness ==
    /\ lastOp = "read_existing"
    /\ readArgs = <<Root, SHA256>>
    /\ InfoTags = <<PayloadOctetStreamSummary(4, 3)>>
    /\ LinesFail(tagmanifest_name(SHA256))
    /\ readRes.err = <<"BagInfoOxum", "stream_count">>

-----------------------------------------------------------------------------
(* SpecTag: Display then from_str on a well-formed tag                      *)

MaxNum == 3

Numbers == 0..MaxNum \cup {10, U8_MAX}

\* Date::new(2024, 8, 1), Date::new(2024, 7, 11), Date::new(2024, 2, 29)
Dates == {20240801, 20240711, 20240229}

TagKeys == {<<"k">>, <<"K", " ", "x">>, KEY_VERSION, KEY_ENCODING, KEY_DATE, KEY_OXUM}
TagValues == {<<"v">>, <<"a", ":", " ", "b">>, <<"1", ".", "0">>, UTF8, <<"x", " ", "y">>}

\* the custom tags Metadata::custom accepts
CustomTags ==
    {Custom(k, v) : k \in TagKeys, v \in TagValues}

WellFormedTags ==
    {BagitVersion(a, b) : a \in Numbers, b \in Numbers}
    \cup {Encoding}
    \cup {BaggingDate(d) : d \in Dates}
    \cup {PayloadOctetStreamSummary(a, b) : a \in Numbers, b \in Numbers}
    \cup {t \in CustomTags : validate_format(t.key, t.value) = "Ok"}

InitTag ==
    /\ fs = BaseFs
    /\ items = <<>>
    /\ tags = <<>>
    /\ genRes = Ok
    /\ lastOp = "none"
    /\ clean = TRUE
    /\ sealed = FALSE
    /\ nAdd = 0
    /\ added = <<>>
    /\ nFin = 0
    /\ readRes = NoRead
    /\ readArgs = <<>>
    /\ nRead = 0
    /\ nTamper = 0
    /\ tampered = {}
    /\ tag \in WellFormedTags
    /\ line = <<>>
    /\ parsed = NoParse
    /\ tpc = "tag"
    /\ join = NoJoin
    /\ found = NoFind

Display ==
    /\ tpc = "tag"
    /\ line' = Metadata_to_string(tag)
    /\ tpc' = "line"
    /\ UNCHANGED <<join, found>>
    /\ UNCHANGED <<tag, parsed>>
    /\ UNCHANGED bagVars

FromStr ==
    /\ tpc = "line"
    /\ parsed' = from_str(line)
    /\ tpc' = "parsed"
    /\ UNCHANGED <<join, found>>
    /\ UNCHANGED <<tag, line>>
    /\ UNCHANGED bagVars

NextTag == Display \/ FromStr

SpecTag == InitTag /\ [][NextTag]_vars

ReservedKeys == {KEY_VERSION, KEY_ENCODING, KEY_DATE, KEY_OXUM}

\* C10: for every well-formed tag, a custom tag with any non-empty key
\* without ':' and any non-empty value without leading or trailing
\* whitespace included, parsing the serialized line returns the tag.
C10_RoundTripAnyKey ==
    tpc = "parsed" => parsed.ok /\ parsed.tag = tag

\* The round trip does hold for the typed tags and for the custom tags whose
\* key is not one from_str dispatches on.
RoundTripOutsideReservedKeys ==
    (tpc = "parsed" /\ ~(tag.kind = "Custom" /\ tag.key \in ReservedKeys))
        => parsed.ok /\ parsed.tag = tag

RoundTripCustomReached ==
    /\ tpc = "parsed"
    /\ tag.kind = "Custom"
    /\ tag.key \notin ReservedKeys
    /\ tag.value = <<"a", ":", " ", "b">>
    /\ parsed = ParseOk(tag)

-----------------------------------------------------------------------------
(* SpecParse: Metadata::from_str on any line                                *)

MaxLineLen == 5

LineAlphabet == {"k", ":", " ", "\t"}

\* every text of at most MaxLineLen characters of the alphabet, and lines
\* with a key from_str dispatches on
RawLines ==
    UNION {[1..n -> LineAlphabet] : n \in 0..MaxLineLen}
    \cup {k \o <<":", " ">> \o v :
            k \in {KEY_VERSION, KEY_ENCODING, KEY_DATE, KEY_OXUM},
            v \in {<<"1", ".", "0">>, <<" ", "1", ".", "0">>, <<"1", ".", "0", "\t">>,
                   <<"x">>, UTF8, UTF8 \o <<" ">>,
                   DateString(20240801), <<"2", "0", "2", "4", "-", "0", "2", "-", "3", "0">>}}
    \cup {<<":">> \o KEY_VERSION \o <<":", " ", "x">>}

InitParse ==
    /\ fs = BaseFs
    /\ items = <<>>
    /\ tags = <<>>
    /\ genRes = Ok
    /\ lastOp = "none"
    /\ clean = TRUE
    /\ sealed = FALSE
    /\ nAdd = 0
    /\ added = <<>>
    /\ nFin = 0
    /\ readRes = NoRead
    /\ readArgs = <<>>
    /\ nRead = 0
    /\ nTamper = 0
    /\ tampered = {}
    /\ tag = NoTag
    /\ line \in RawLines
    /\ parsed = NoParse
    /\ tpc = "line"
    /\ join = NoJoin
    /\ found = NoFind

SpecParse == InitParse /\ [][FromStr]_vars

\* the places of the line where ": " stands
Separators == {i \in 1..(Len(line) - 1) : line[i] = ":" /\ line[i + 1] = " "}
KeyOfLine == SubSeq(line, 1, Min(Separators) - 1)
ValueOfLine == SubSeq(line, Min(Separators) + 2, Len(line))

\* C11: parsing a line fails with Format when it has no ": " or when the
\* key or the value around the first ": " is empty; otherwise with
\* KeyForbiddenCharacter when the key holds ':'; otherwise with
\* ValueForbiddenCharacter when the value starts or ends with whitespace;
\* only a line that passes the three checks reaches the parsing of the
\* value by its key.
C11_ErrorClassification ==
    tpc = "parsed" =>
        IF Separators = {} THEN parsed.err = <<"Format">>
        ELSE IF KeyOfLine = <<>> \/ ValueOfLine = <<>> THEN parsed.err = <<"Format">>
        ELSE IF \E i \in 1..Len(KeyOfLine) : KeyOfLine[i] = ":"
             THEN parsed.err = <<"KeyForbiddenCharacter">>
        ELSE IF ValueOfLine[1] \in WhiteSpace \/ ValueOfLine[Len(ValueOfLine)] \in WhiteSpace
             THEN parsed.err = <<"ValueForbiddenCharacter">>
        ELSE parsed.ok \/ parsed.err[1] \in {"ValueParsing", "Encoding"}

\* ":: \tk": the key ":" and the value "\tk" are both bad, the key is reported
C11_Witness ==
    /\ tpc = "parsed"
    /\ line = <<":", ":", " ", "\t", "k">>
    /\ parsed.err = <<"KeyForbiddenCharacter">>

-----------------------------------------------------------------------------
(* The declaration stage of read_existing, checked under SpecRead          *)

DeclarationParses ==
    /\ HasFile(BAGIT_TXT)
    /\ \A k \in 1..Len(LinesOf(BAGIT_TXT)) : from_str(LinesOf(BAGIT_TXT)[k]).ok

DeclarationTags ==
    [k \in 1..Len(LinesOf(BAGIT_TXT)) |-> from_str(LinesOf(BAGIT_TXT)[k]).tag]

DeclarationPassed == Len(readRes.stages) > 2

\* C12: read_existing passes the declaration stage only when bagit.txt
\* parses to exactly two tags, a BagIt-Version of any value then the
\* encoding; a missing file gives BagDeclaration(Missing), a first tag
\* absent or not the version Tag("BagIt-Version"), a second tag absent or
\* not the encoding Tag("Tag-File-Character-Encoding"), a third tag
\* NumberTags.
C12_DeclarationCheck ==
    (lastOp = "read_existing" /\ ~DirectoryFails)
    => /\ ~exists(fs, Append(ReadDir, BAGIT_TXT))
            => readRes.err = <<"BagDeclaration", "Missing">>
       /\ DeclarationPassed
            <=> /\ DeclarationParses
                /\ Len(DeclarationTags) = 2
                /\ DeclarationTags[1].kind = "BagitVersion"
                /\ DeclarationTags[2].kind = "Encoding"
       /\ DeclarationParses
            => /\ (Len(DeclarationTags) = 0 \/ DeclarationTags[1].kind # "BagitVersion")
                    => readRes.err = <<"BagDeclaration", "Tag", "BagIt-Version">>
               /\ (/\ Len(DeclarationTags) >= 1
                   /\ DeclarationTags[1].kind = "BagitVersion"
                   /\ (Len(DeclarationTags) = 1 \/ DeclarationTags[2].kind # "Encoding"))
                    => readRes.err = <<"BagDeclaration", "Tag", "Tag-File-Character-Encoding">>
               /\ (/\ Len(DeclarationTags) >= 3
                   /\ DeclarationTags[1].kind = "BagitVersion"
                   /\ DeclarationTags[2].kind = "Encoding")
                    => readRes.err = <<"BagDeclaration", "NumberTags">>

\* a declaration of version 0.97 passes the stage
C12_Witness ==
    /\ lastOp = "read_existing"
    /\ readArgs = <<Root, SHA256>>
    /\ DeclarationTags = <<BagitVersion(0, 97), Encoding>>
    /\ DeclarationPassed

-----------------------------------------------------------------------------
(* The four files of a bag, checked under Spec                             *)

\* C13: after new_empty and any number of successful add_file calls, none
\* of the manifest, bagit.txt, bag-info.txt and the tag manifest exists in
\* the bag directory, and every added file is a file of data/ under its own
\* name; after a successful finalize the four files exist.
C13_FourFilesLifecycle ==
    /\ (clean /\ nFin = 0)
        => /\ \A name \in TagFiles : ~exists(fs, Append(Root, name))
           /\ \A i \in 1..Len(added) :
                is_file(fs, Append(PathJoin(Root, DATA_DIR), file_name(added[i])))
    /\ (lastOp = "finalize" /\ genRes = Ok)
        => \A name \in TagFiles : is_file(fs, Append(Root, name))

\* two files added, then the bag finalized
C13_Witness ==
    /\ lastOp = "finalize" /\ genRes = Ok
    /\ nFin = 1
    /\ added = <<SrcA, SrcB>>
    /\ \A name \in TagFiles : is_file(fs, Append(Root, name))
    /\ is_file(fs, Root \o <<<<"d", "a", "t", "a">>, <<"b">>>>)

-----------------------------------------------------------------------------
(* SpecFile: MetadataFile::write then MetadataFile::read of the same path  *)

MaxTags == 2

\* tags the constructors of Metadata accept: typed ones, a plain custom
\* tag, a custom tag whose value holds a line break, a custom tag under a
\* key from_str dispatches on
FileTags ==
    {BagitVersion(1, 0), Encoding, PayloadOctetStreamSummary(3, 2), BaggingDate(20240801),
     Custom(<<"k">>, <<"v">>),
     Custom(<<"k">>, <<"a", "\n", "b">>),
     Custom(KEY_OXUM, <<"v">>)}

TagLists == UNION {[1..n -> FileTags] : n \in 0..MaxTags}

TagFilePath == Append(Root, BAG_INFO_TXT)

\* the file does not exist yet, or holds an older, longer text
TagFileDisks ==
    {(Root :> Dir) @@ BaseFs,
     (TagFilePath :> File(<<"o", "l", "d", ":", " ", "t", "e", "x", "t", "\n", "m", "o", "r", "e", ":", " ", "x", "\n">>))
        @@ (Root :> Dir) @@ BaseFs}

NoFileRead == [ok |-> FALSE, err |-> <<"NotRun">>, tags |-> <<>>]

InitFile ==
    /\ fs \in TagFileDisks
    /\ items = <<>>
    /\ tags \in TagLists
    /\ genRes = Ok
    /\ lastOp = "none"
    /\ clean = TRUE
    /\ sealed = FALSE
    /\ nAdd = 0
    /\ added = <<>>
    /\ nFin = 0
    /\ readRes = NoRead
    /\ readArgs = <<>>
    /\ nRead = 0
    /\ nTamper = 0
    /\ tampered = {}
    /\ tag = NoTag
    /\ line = <<>>
    /\ parsed = NoFileRead
    /\ tpc = "tags"
    /\ join = NoJoin
    /\ found = NoFind

\* MetadataFile(tags).write(path)
WriteTags ==
    /\ tpc = "tags"
    /\ LET w == MetadataFile_write(fs, TagFilePath, tags)
       IN  /\ fs' = w.fs
           /\ genRes' = IF w.ok THEN Ok ELSE <<w.kind>>
    /\ tpc' = "written"
    /\ UNCHANGED <<join, found>>
    /\ UNCHANGED <<items, tags, lastOp, clean, sealed, nAdd, added, nFin,
                   readRes, readArgs, nRead, nTamper, tampered>>
    /\ UNCHANGED <<tag, line, parsed>>

\* MetadataFile::read(path)
ReadTagsBack ==
    /\ tpc = "written"
    /\ parsed' = MetadataFile_read(fs, TagFilePath)
    /\ tpc' = "read"
    /\ UNCHANGED <<join, found>>
    /\ UNCHANGED bagVars
    /\ UNCHANGED <<tag, line>>

NextFile == WriteTags \/ ReadTagsBack

SpecFile == InitFile /\ [][NextFile]_vars

\* the serialized tags, one after the other, a single "\n" between two
RECURSIVE Joined(_)
Joined(tgs) ==
    IF tgs = <<>> THEN <<>>
    ELSE Metadata_key(tgs[1]) \o <<":", " ">> \o Metadata_value(tgs[1])
            \o (IF Len(tgs) = 1 THEN <<>> ELSE <<"\n">> \o Joined(Tail(tgs)))

\* C14: for every list of well-formed tags, write then read of the same
\* path returns the same tags in the same order, and the written file is
\* the serialized tags joined by single newlines without a trailing one,
\* whatever the file held before.
C14_TagFileRoundTrip ==
    /\ tpc \in {"written", "read"}
        => genRes = Ok /\ ReadFile(fs, TagFilePath) = Joined(tags)
    /\ tpc = "read" => parsed.ok /\ parsed.tags = tags

\* a tag written on one line that from_str takes back: no line break in
\* it, and no custom tag under a key from_str dispatches on
LineTag(t) ==
    /\ ~Contains(Metadata_to_string(t), "\n")
    /\ ~Contains(Metadata_to_string(t), "\r")
    /\ ~(t.kind = "Custom" /\ t.key \in ReservedKeys)

\* The round trip does hold for the lists of such tags.
TagFileRoundTripOfLineTags ==
    /\ tpc \in {"written", "read"}
        => genRes = Ok /\ ReadFile(fs, TagFilePath) = Joined(tags)
    /\ (tpc = "read" /\ \A i \in 1..Len(tags) : LineTag(tags[i]))
        => parsed.ok /\ parsed.tags = tags

TagFileRoundTripReached ==
    /\ tpc = "read"
    /\ tags = <<Custom(<<"k">>, <<"v">>), PayloadOctetStreamSummary(3, 2)>>
    /\ parsed.ok /\ parsed.tags = tags

-----------------------------------------------------------------------------
(* SpecLine: Payload::from_manifest on one manifest line, in the directory *)
(* of the bag of two payloads                                              *)

\* the files of the bag the lines name, by the text of their path
LineFiles == {DATA_DIR \o <<"a">>, BAGIT_TXT}

LineDigest(path) == DigestBytes(SHA256, ReadFile(SealedBag.fs, PathJoin(Root, path)))

\* the text of bytes in base 16, two digits of the alphabet per byte
RECURSIVE HexText(_, _)
HexText(bytes, alphabet) ==
    IF bytes = <<>> THEN <<>>
    ELSE <<alphabet[(Head(bytes) \div 16) + 1], alphabet[(Head(bytes) % 16) + 1]>>
            \o HexText(Tail(bytes), alphabet)

\* first tokens: the digest of a file as the library writes it, the same
\* digest in uppercase, a text that is no digest of a file
LineChecksums ==
    {HexText(LineDigest(f), HexDigits) : f \in LineFiles}
    \cup {HexText(LineDigest(f), HexDigitsUpper) : f \in LineFiles}
    \cup {<<"0", "0">>}

LinePaths ==
    LineFiles \cup {DATA_DIR \o <<"n", "o", "n", "e">>, <<".", ".", "/">> \o Secret[1]}

\* lines of no token, one, two (separated by spaces or a tab, with blanks
\* around), three and four tokens
ManifestLines ==
    {<<>>, <<" ">>}
    \cup LineChecksums
    \cup {c \o sep \o q : c \in LineChecksums, q \in LinePaths,
                          sep \in {<<" ">>, <<" ", " ">>, <<"\t">>}}
    \cup {<<" ">> \o c \o <<" ">> \o q \o <<" ">> : c \in LineChecksums, q \in LinePaths}
    \cup {c \o <<" ">> \o q \o more : c \in LineChecksums, q \in LinePaths,
                                      more \in {<<" ", "b">>, <<" ", "b", " ", "c">>}}

NoLine == LineResult(FALSE, <<"NotRun">>, NoPayload, <<>>)

InitLine ==
    /\ fs = SealedBag.fs
    /\ items = SealedBag.items
    /\ tags = SealedBag.tags
    /\ genRes = Ok
    /\ lastOp = "finalize"
    /\ clean = TRUE
    /\ sealed = TRUE
    /\ nAdd = Len(SealedBag.items)
    /\ added = <<SrcA, SrcB>>
    /\ nFin = 1
    /\ readRes = NoRead
    /\ readArgs = <<>>
    /\ nRead = 0
    /\ nTamper = 0
    /\ tampered = {}
    /\ tag = NoTag
    /\ line \in ManifestLines
    /\ parsed = NoLine
    /\ tpc = "manifest line"
    /\ join = NoJoin
    /\ found = NoFind

\* Payload::from_manifest(line, Root)
FromManifest ==
    /\ tpc = "manifest line"
    /\ parsed' = from_manifest(fs, SHA256, line, Root)
    /\ tpc' = "validated"
    /\ UNCHANGED <<join, found>>
    /\ UNCHANGED bagVars
    /\ UNCHANGED <<tag, line>>

SpecLine == InitLine /\ [][FromManifest]_vars

LineTokens == split_whitespace(line)

\* C15: a manifest line is accepted only if it splits into exactly two
\* whitespace-separated tokens; a line of fewer or of more than two tokens
\* is rejected with InvalidLine.
C15_ExactlyTwoTokens ==
    tpc = "validated"
    => /\ parsed.ok => Len(LineTokens) = 2
       /\ Len(LineTokens) # 2 => parsed.err = <<"InvalidLine">>

\* What does hold: InvalidLine is the result of the lines of fewer than two
\* tokens, and of no other line.
InvalidLineBelowTwoTokens ==
    tpc = "validated" => (parsed.err = <<"InvalidLine">> <=> Len(LineTokens) < 2)

InvalidLineReached ==
    /\ tpc = "validated"
    /\ Len(LineTokens) = 1
    /\ parsed.err = <<"InvalidLine">>

\* C19: a Checksum built from bytes equals the one built from their
\* lowercase hex text, a Checksum built from a text is that text, and two
\* Checksums are equal iff their texts are, case included: a line naming a
\* file of the bag is accepted iff its first token is the lowercase digest
\* of the file, and with the digest written in uppercase it is rejected
\* with ChecksumDiffers.
C19_ChecksumIdentity ==
    tpc = "validated"
    => /\ \A f \in LineFiles :
            Checksum_from_bytes(LineDigest(f))
                = Checksum_from_str(HexText(LineDigest(f), HexDigits))
       /\ \A i \in 1..Len(LineTokens) : Checksum_from_str(LineTokens[i]) = LineTokens[i]
       /\ \A f \in LineFiles :
            (Len(LineTokens) >= 2 /\ LineTokens[2] = f)
            => /\ parsed.ok <=> LineTokens[1] = HexText(LineDigest(f), HexDigits)
               /\ (/\ LineTokens[1] = HexText(LineDigest(f), HexDigitsUpper)
                   /\ LineTokens[1] # HexText(LineDigest(f), HexDigits))
                    => parsed.err = <<"ChecksumDiffers">>

\* the digest of bagit.txt in uppercase, then "bagit.txt"
C19_Witness ==
    /\ tpc = "validated"
    /\ line = HexText(LineDigest(BAGIT_TXT), HexDigitsUpper) \o <<" ">> \o BAGIT_TXT
    /\ \E i \in 1..Len(line) : line[i] \in {"A", "B", "C", "D", "E", "F"}
    /\ parsed.err = <<"ChecksumDiffers">>

-----------------------------------------------------------------------------
(* The result of read_existing as a whole, checked under SpecRead          *)

\* the first line of a manifest that Payload::from_manifest refuses
FirstFailing(name) ==
    Min({k \in 1..Len(LinesOf(name)) :
            ~from_manifest(fs, ReadAlgo, LinesOf(name)[k], ReadDir).ok})

LineError(name, k) == from_manifest(fs, ReadAlgo, LinesOf(name)[k], ReadDir).err

\* C16: read_existing returns an error or a Bag in which every manifest
\* line was validated; when a line of the manifest or of the tag manifest
\* fails, no Bag and no list of the payloads validated so far is returned,
\* and the error of the call is the one of the first such line the call
\* comes to.
C16_NoPartialResults ==
    lastOp = "read_existing"
    => /\ readRes.ok
            => /\ HasFile(manifest_name(ReadAlgo))
               /\ Len(readRes.items) = Len(LinesOf(manifest_name(ReadAlgo)))
               /\ \A k \in 1..Len(readRes.items) :
                    /\ LineIntact(manifest_name(ReadAlgo), k)
                    /\ readRes.items[k].checksum = Tokens(manifest_name(ReadAlgo), k)[1]
                    /\ readRes.items[k].relative_path = Tokens(manifest_name(ReadAlgo), k)[2]
       /\ ~readRes.ok => readRes.items = <<>> /\ readRes.tags = <<>>
       /\ \A name \in {manifest_name(ReadAlgo), tagmanifest_name(ReadAlgo)} :
            LinesFail(name) => ~readRes.ok
       /\ (FailingStages # {} /\ Min(FailingStages) = 6)
            => readRes.err = <<"ProcessManifestLine">>
                    \o LineError(manifest_name(ReadAlgo), FirstFailing(manifest_name(ReadAlgo)))
       /\ (FailingStages # {} /\ Min(FailingStages) = 8)
            => readRes.err = <<"ProcessManifestLine">>
                    \o LineError(tagmanifest_name(ReadAlgo),
                                 FirstFailing(tagmanifest_name(ReadAlgo)))

\* the first line of the manifest is valid, the second names a file that
\* was changed: nothing of the first is returned
C16_Witness ==
    /\ lastOp = "read_existing"
    /\ readArgs = <<Root, SHA256>>
    /\ LineIntact(manifest_name(SHA256), 1)
    /\ LineTampered(manifest_name(SHA256), 2)
    /\ readRes.err = <<"ProcessManifestLine", "ChecksumDiffers">>
    /\ readRes.items = <<>>
    /\ Len(readRes.hashed) = 2

-----------------------------------------------------------------------------
(* SpecHandMade: read_existing of a directory that another program wrote:  *)
(* a payload data/a, a declaration, a manifest, with or without a          *)
(* bag-info.txt, without a tag manifest                                    *)

MaxLines == 2

BareDirectory ==
    (Root :> Dir)
    @@ (PathJoin(Root, DATA_DIR) :> Dir)
    @@ (PathJoin(Root, DATA_DIR \o <<"a">>) :> File(<<"x">>))
    @@ (Append(Root, BAGIT_TXT) :> File(JoinLines(<<VersionLine, EncodingLine>>)))
    @@ BaseFs

\* path texts of manifest lines: the payload by its usual name, from ".",
\* by its absolute path; the declaration; a file outside the directory
HandPaths ==
    {DATA_DIR \o <<"a">>,
     <<".", "/">> \o DATA_DIR \o <<"a">>,
     <<"/">> \o Root[1] \o <<"/">> \o DATA_DIR \o <<"a">>,
     BAGIT_TXT,
     <<".", ".", "/">> \o Secret[1]}

\* each with the digest of the file it leads to
HandLines ==
    {HexText(DigestBytes(SHA256, ReadFile(BareDirectory, PathJoin(Root, q))), HexDigits)
        \o <<" ">> \o q : q \in HandPaths}

HandManifests == UNION {[1..n -> HandLines] : n \in 0..MaxLines}

HandInfos == {<<>>, <<OxumLine(1, 1)>>, <<<<"N", ":", " ", "n">>>>}

HandMade(lines, info, withInfo) ==
    (Append(Root, manifest_name(SHA256)) :> File(JoinLines(lines)))
    @@ (IF withInfo THEN (Append(Root, BAG_INFO_TXT) :> File(JoinLines(info))) ELSE <<>>)
    @@ BareDirectory

InitHandMade ==
    /\ fs \in {HandMade(lines, info, withInfo) :
                lines \in HandManifests, info \in HandInfos, withInfo \in BOOLEAN}
    /\ items = <<>>
    /\ tags = <<>>
    /\ genRes = Ok
    /\ lastOp = "none"
    /\ clean = TRUE
    /\ sealed = FALSE
    /\ nAdd = 0
    /\ added = <<>>
    /\ nFin = 0
    /\ readRes = NoRead
    /\ readArgs = <<>>
    /\ nRead = 0
    /\ nTamper = 0
    /\ tampered = {}
    /\ tag = NoTag
    /\ line = <<>>
    /\ parsed = NoParse
    /\ tpc = "unused"
    /\ join = NoJoin
    /\ found = NoFind

NextHandMade == \E dir \in ReadDirs, algo \in Algorithms : ReadExisting(dir, algo)

SpecHandMade == InitHandMade /\ [][NextHandMade]_vars

UnderData(p) == strip_prefix(p.relative_path, DATA_DIR).some

\* C17: every Payload held by a Bag, appended by add_file or produced by
\* read_existing from a manifest line, has a relative_path that starts
\* with "data/".
C17_PayloadsUnderData ==
    /\ \A i \in 1..Len(items) : UnderData(items[i])
    /\ (lastOp = "read_existing" /\ readRes.ok)
        => \A i \in 1..Len(readRes.items) : UnderData(readRes.items[i])

\* What does hold: the payloads of a Bag that read_existing returns are
\* files inside the bag directory.
PayloadsInsideDirectory ==
    (lastOp = "read_existing" /\ readRes.ok)
    => \A i \in 1..Len(readRes.items) :
            LET target == canonicalize(fs, PathJoin(ReadDir, readRes.items[i].relative_path))
            IN  /\ target.ok
                /\ starts_with(target.path, canonicalize(fs, ReadDir).path)
                /\ fs[target.path].kind = "file"

PayloadsInsideDirectoryReached ==
    /\ lastOp = "read_existing" /\ readRes.ok
    /\ Len(readRes.items) = 2
    /\ UnderData(readRes.items[1])
    /\ ~UnderData(readRes.items[2])

-----------------------------------------------------------------------------
(* SpecDate: a bag assembled with a bagging date, finalized, its optional  *)
(* files possibly removed, then read                                       *)

MaxDate == 1

DateTags(tgs) == {i \in 1..Len(tgs) : tgs[i].kind = "BaggingDate"}

\* a call of bag.add_bagging_date(date)
AddBaggingDate(date) ==
    /\ nRead = 0
    /\ nTamper = 0
    /\ Cardinality(DateTags(tags)) < MaxDate
    /\ tags' = add_bagging_date(tags, date)
    /\ genRes' = Ok
    /\ lastOp' = "add_bagging_date"
    /\ sealed' = FALSE
    /\ UNCHANGED <<fs, items, clean, nAdd, added, nFin, readRes, readArgs, nRead,
                   nTamper, tampered>>
    /\ UNCHANGED tagVars

NextDate ==
    \/ AddFile(SrcA)
    \/ AddBaggingDate(20240801)
    \/ Finalize
    \/ \E name \in {BAG_INFO_TXT, tagmanifest_name(SHA256)} : RemoveFile(name)
    \/ ReadExisting(Root, SHA256)

SpecDate == Init /\ [][NextDate]_vars

\* C18: the tags of a Bag returned by read_existing are the tags parsed
\* from bag-info.txt, in file order, the Payload-Oxum tag included, and
\* none when there is no bag-info.txt; for a bag built with
\* add_bagging_date and finalize they are the tags of the assembler after
\* finalize.
C18_TagsOfReadBag ==
    (lastOp = "read_existing" /\ readRes.ok)
    => /\ readRes.tags = IF HasInfo THEN InfoTags ELSE <<>>
       /\ HasInfo
            => \E i \in 1..Len(readRes.tags) :
                    readRes.tags[i]
                        = PayloadOctetStreamSummary(SumBytes(readRes.items), Len(readRes.items))
       /\ (sealed /\ nTamper = 0) => readRes.tags = tags

\* add_file, add_bagging_date, finalize, read_existing
C18_Witness ==
    /\ lastOp = "read_existing" /\ readRes.ok
    /\ sealed /\ nTamper = 0
    /\ tags = <<BaggingDate(20240801), PayloadOctetStreamSummary(1, 1)>>
    /\ readRes.tags = tags
    /\ LinesOf(BAG_INFO_TXT)[1]
            = <<"B","a","g","g","i","n","g","-","D","a","t","e",":"," ","2","0","2","4","-","0","8","-","0","1">>

\* without bag-info.txt and tag manifest the Bag has no tag
NoInfoNoTagsReached ==
    /\ lastOp = "read_existing" /\ readRes.ok
    /\ ~HasInfo
    /\ Len(readRes.items) = 1
    /\ readRes.tags = <<>>

-----------------------------------------------------------------------------
(* SpecFault: a bag assembled in a directory where something stands in     *)
(* the place of the files finalize writes                                  *)

\* in the place of a file: nothing, a directory, a file that the process
\* may write but not read
Obstacles == {"none", "dir", "writeonly"}

Obstructed(o) ==
    [p \in {Append(Root, name) : name \in {n \in TagFiles : o[n] # "none"}} |->
        IF o[p[Len(p)]] = "dir" THEN Dir ELSE WriteOnly(<<"o", "l", "d">>)]
    @@ (Root :> Dir) @@ BaseFs

InitFault ==
    /\ fs \in {Obstructed(o) : o \in [TagFiles -> Obstacles]}
    /\ items = <<>>
    /\ tags = <<>>
    /\ genRes = Ok
    /\ lastOp = "new_empty"
    /\ clean = TRUE
    /\ sealed = FALSE
    /\ nAdd = 0
    /\ added = <<>>
    /\ nFin = 0
    /\ readRes = NoRead
    /\ readArgs = <<>>
    /\ nRead = 0
    /\ nTamper = 0
    /\ tampered = {}
    /\ tag = NoTag
    /\ line = <<>>
    /\ parsed = NoParse
    /\ tpc = "unused"
    /\ join = NoJoin
    /\ found = NoFind

NextFault ==
    \/ AddFile(SrcA)
    \/ Finalize

SpecFault == InitFault /\ [][NextFault]_vars

\* C20: every I/O failure of a step of finalize, the reading of the three
\* files for their checksums included, is returned as
\* GenerateError::Finalize.
C20_EveryFailureIsFinalize ==
    (lastOp = "finalize" /\ genRes # Ok) => genRes[1] = "Finalize"

\* What does hold: a failure of one of the four writes is returned as
\* Finalize, and any other error of finalize is the ComputeChecksum of one
\* of the three files, written but not readable.
WriteFailuresAreFinalize ==
    [][(lastOp' = "finalize" /\ genRes' # Ok)
        => \/ /\ genRes'[1] = "Finalize"
              /\ \E name \in TagFiles : is_dir(fs, Append(Root, name))
           \/ /\ genRes'[1] = "ComputeChecksum"
              /\ \A name \in TagFiles \ {tagmanifest_name(SHA256)} :
                        ~is_dir(fs, Append(Root, name))
              /\ \E name \in TagFiles \ {tagmanifest_name(SHA256)} :
                        /\ is_file(fs', Append(Root, name))
                        /\ ~Readable(fs', Append(Root, name))]_vars

WriteFailureReached ==
    /\ lastOp = "finalize"
    /\ genRes = <<"Finalize", "IsADirectory">>
    /\ is_dir(fs, Append(Root, tagmanifest_name(SHA256)))
    /\ \A name \in TagFiles \ {tagmanifest_name(SHA256)} : is_file(fs, Append(Root, name))

-----------------------------------------------------------------------------
(* C21: the order of the four writes of finalize                           *)

\* the files of finalize in the order of its steps
FinalizeOrder == <<manifest_name(SHA256), BAGIT_TXT, BAG_INFO_TXT, tagmanifest_name(SHA256)>>

\* what the k-th step writes, k < 4, given the lists the call leaves
StepContent(k, its, tgs) ==
    IF k = 1 THEN JoinLines([i \in 1..Len(its) |-> Payload_to_string(its[i])])
    ELSE IF k = 2 THEN JoinLines(<<Metadata_to_string(BagitVersion(1, 0)),
                                   Metadata_to_string(Encoding)>>)
    ELSE JoinLines([i \in 1..Len(tgs) |-> Metadata_to_string(tgs[i])])

\* the steps that cannot complete on this disk: a directory stands where
\* the step writes, or (step 4) one of the three files cannot be read
FailingSteps(fsys) ==
    {k \in 1..4 : is_dir(fsys, Append(Root, FinalizeOrder[k]))}
    \cup {k \in {4} : \E j \in 1..3 :
                /\ is_file(fsys, Append(Root, FinalizeOrder[j]))
                /\ ~Readable(fsys, Append(Root, FinalizeOrder[j]))}

SamePlace(p) ==
    /\ (p \in DOMAIN fs) = (p \in DOMAIN fs')
    /\ p \in DOMAIN fs => fs'[p] = fs[p]

\* C21: finalize writes manifest, bagit.txt, bag-info.txt, tag manifest in
\* that order and is not atomic: when the step of the k-th file fails the
\* call returns an error, the files of the steps before k hold what those
\* steps write, and the files of step k and later are as they were.
C21_OrderedNotAtomic ==
    [][(nFin' # nFin /\ FailingSteps(fs) # {})
        => /\ genRes' # Ok
           /\ \A j \in 1..4 :
                IF j < Min(FailingSteps(fs))
                THEN /\ is_file(fs', Append(Root, FinalizeOrder[j]))
                     /\ ReadFile(fs', Append(Root, FinalizeOrder[j]))
                            = StepContent(j, items', tags')
                ELSE SamePlace(Append(Root, FinalizeOrder[j]))]_vars

\* finalize has failed at bagit.txt: the manifest is written, bag-info.txt
\* and the tag manifest are not
C21_Witness ==
    /\ lastOp = "finalize"
    /\ nFin = 1
    /\ genRes = <<"Finalize", "IsADirectory">>
    /\ items # <<>>
    /\ is_file(fs, Append(Root, manifest_name(SHA256)))
    /\ ReadFile(fs, Append(Root, manifest_name(SHA256))) = StepContent(1, items, tags)
    /\ is_dir(fs, Append(Root, BAGIT_TXT))
    /\ Append(Root, BAG_INFO_TXT) \notin DOMAIN fs
    /\ Append(Root, tagmanifest_name(SHA256)) \notin DOMAIN fs

-----------------------------------------------------------------------------
(* SpecJoin: finalize with the three checksum computations of              *)
(* write_tagmanifest_file running as the futures handed to join_all, each  *)
(* advancing one await at a time, in any interleaving                      *)

\* finalize up to the call of write_tagmanifest_file
finalize_until_join(fsys, root, algo, its, tgs) ==
    With(write_manifest_file(fsys, root, manifest_name(algo),
                             [i \in 1..Len(its) |-> Payload_to_string(its[i])]),
         LAMBDA w1 :
    IF ~w1.ok THEN GenResult(FALSE, <<"Finalize", w1.kind>>, fsys, its, tgs)
    ELSE
    With(MetadataFile_write(w1.fs, PathJoin(root, BAGIT_TXT),
                            <<BagitVersion(1, 0), Encoding>>),
         LAMBDA w2 :
    IF ~w2.ok THEN GenResult(FALSE, <<"Finalize", w2.kind>>, w1.fs, its, tgs)
    ELSE
    With(MetadataFile_write(w2.fs, PathJoin(root, BAG_INFO_TXT), Append(tgs, OxumOf(its))),
         LAMBDA w3 :
    IF ~w3.ok
    THEN GenResult(FALSE, <<"Finalize", w3.kind>>, w2.fs, its, Append(tgs, OxumOf(its)))
    ELSE GenResult(TRUE, <<>>, w3.fs, its, Append(tgs, OxumOf(its))))))

\* the files of the tag manifest, in the order of the array `items`
JoinItems(algo) == <<BAGIT_TXT, BAG_INFO_TXT, manifest_name(algo)>>

\* a future that has not returned yet
Pending == [ok |-> FALSE, err |-> <<"Pending">>, checksum |-> <<>>]

(* faulty variant: the results taken in the order the futures completed *)
JoinResultsAsCompleted(j) == [k \in 1..3 |-> j.sums[j.order[k]]]

\* join_all: the results in the order of the futures handed in
JoinResults(j) == [k \in 1..3 |-> j.sums[k]]

\* write_tagmanifest_file from the collect on
tagmanifest_after_join(fsys, root, algo, sums) ==
    With({i \in 1..3 : ~sums[i].ok}, LAMBDA bad :
    IF bad # {}
    THEN [ok |-> FALSE, err |-> <<"ComputeChecksum">> \o sums[Min(bad)].err, fs |-> fsys]
    ELSE
    With([i \in 1..3 |-> Payload_new(fsys, root, JoinItems(algo)[i], sums[i].checksum)],
         LAMBDA made :
    With(SelectSeq(made, LAMBDA m : m.ok), LAMBDA kept :
    With([i \in 1..Len(kept) |-> Payload_to_string(kept[i].payload)], LAMBDA lines :
    With(write_manifest_file(fsys, root, tagmanifest_name(algo), lines), LAMBDA written :
    IF ~written.ok
    THEN [ok |-> FALSE, err |-> <<"Finalize", written.kind>>, fs |-> fsys]
    ELSE [ok |-> TRUE, err |-> <<>>, fs |-> written.fs])))))

\* new_empty on an existing directory, where bag-info.txt may already
\* stand as a file the process cannot read
InitJoin ==
    /\ fs \in {(Root :> Dir) @@ BaseFs,
               (Append(Root, BAG_INFO_TXT) :> WriteOnly(<<"o">>)) @@ (Root :> Dir) @@ BaseFs}
    /\ items = <<>>
    /\ tags = <<>>
    /\ genRes = Ok
    /\ lastOp = "new_empty"
    /\ clean = TRUE
    /\ sealed = FALSE
    /\ nAdd = 0
    /\ added = <<>>
    /\ nFin = 0
    /\ readRes = NoRead
    /\ readArgs = <<>>
    /\ nRead = 0
    /\ nTamper = 0
    /\ tampered = {}
    /\ tag = NoTag
    /\ line = <<>>
    /\ parsed = NoParse
    /\ tpc = "unused"
    /\ join = NoJoin
    /\ found = NoFind

\* add_file borrows the bag mutably: never while finalize runs
AddFileBetween(file) ==
    /\ join.pc # "joining"
    /\ AddFile(file)

\* finalize is called and runs up to the await of join_all
BeginFinalize ==
    /\ join.pc # "joining"
    /\ nFin < MaxFinalize
    /\ LET r == finalize_until_join(fs, Root, SHA256, items, tags)
       IN  /\ fs' = r.fs
           /\ tags' = r.tags
           /\ genRes' = IF r.ok THEN <<"Running">> ELSE r.err
           /\ lastOp' = IF r.ok THEN "finalize running" ELSE "finalize"
           /\ clean' = (clean /\ r.ok)
           /\ join' = [pc |-> IF r.ok THEN "joining" ELSE "returned",
                       at |-> [i \in 1..3 |-> "start"],
                       buffer |-> [i \in 1..3 |-> <<>>],
                       sums |-> [i \in 1..3 |-> Pending],
                       order |-> <<>>,
                       before |-> [fs |-> fs, items |-> items, tags |-> tags]]
    /\ sealed' = FALSE
    /\ nFin' = nFin + 1
    /\ UNCHANGED <<items, nAdd, added, readRes, readArgs, nRead, nTamper, tampered>>
    /\ UNCHANGED <<tag, line, parsed, tpc, found>>

JoinPath(i) == PathJoin(Root, JoinItems(SHA256)[i])

JoinFrame ==
    /\ UNCHANGED <<fs, items, tags, genRes, lastOp, clean, sealed, nAdd, added, nFin,
                   readRes, readArgs, nRead, nTamper, tampered>>
    /\ UNCHANGED <<tag, line, parsed, tpc, found>>

\* future i returns err
Returned(i, err) ==
    [join EXCEPT !.at[i] = "done",
                 !.sums[i] = [ok |-> FALSE, err |-> err, checksum |-> <<>>],
                 !.order = Append(@, i)]

\* future i: path.is_file()
CheckFile(i) ==
    /\ join.pc = "joining"
    /\ join.at[i] = "start"
    /\ join' = IF ~is_file(fs, JoinPath(i)) THEN Returned(i, <<"FileNotFound">>)
               ELSE [join EXCEPT !.at[i] = "checked"]
    /\ JoinFrame

\* future i: File::open(path).await
OpenFile(i) ==
    /\ join.pc = "joining"
    /\ join.at[i] = "checked"
    /\ join' = IF ~Readable(fs, JoinPath(i))
               THEN Returned(i, <<"OpenFile", "PermissionDenied">>)
               ELSE [join EXCEPT !.at[i] = "opened"]
    /\ JoinFrame

\* future i: read_to_end(&mut buffer).await
ReadToEnd(i) ==
    /\ join.pc = "joining"
    /\ join.at[i] = "opened"
    /\ join' = [join EXCEPT !.at[i] = "read", !.buffer[i] = ReadFile(fs, JoinPath(i))]
    /\ JoinFrame

\* future i: spawn_blocking(Checksum::digest(buffer)).await
Digest(i) ==
    /\ join.pc = "joining"
    /\ join.at[i] = "read"
    /\ join' = [join EXCEPT !.at[i] = "done",
                            !.sums[i] = [ok |-> TRUE, err |-> <<>>,
                                         checksum |-> Checksum_digest(SHA256, join.buffer[i])],
                            !.order = Append(@, i)]
    /\ JoinFrame

\* join_all has returned: collect, Payload::new, the tag manifest written,
\* finalize returns
CompleteFinalize ==
    /\ join.pc = "joining"
    /\ \A i \in 1..3 : join.at[i] = "done"
    /\ LET w == tagmanifest_after_join(fs, Root, SHA256, JoinResults(join))
       IN  /\ fs' = w.fs
           /\ genRes' = IF w.ok THEN Ok ELSE w.err
           /\ clean' = (clean /\ w.ok)
           /\ sealed' = w.ok
    /\ lastOp' = "finalize"
    /\ join' = [join EXCEPT !.pc = "returned"]
    /\ UNCHANGED <<items, tags, nAdd, added, nFin, readRes, readArgs, nRead, nTamper, tampered>>
    /\ UNCHANGED <<tag, line, parsed, tpc, found>>

NextJoin ==
    \/ AddFileBetween(SrcA)
    \/ BeginFinalize
    \/ \E i \in 1..3 : CheckFile(i)
    \/ \E i \in 1..3 : OpenFile(i)
    \/ \E i \in 1..3 : ReadToEnd(i)
    \/ \E i \in 1..3 : Digest(i)
    \/ CompleteFinalize

SpecJoin == InitJoin /\ [][NextJoin]_vars

\* the line of the tag manifest for a file as it is on disk
TagManifestLine(name) ==
    Checksum_digest(SHA256, ReadFile(fs, Append(Root, name))) \o <<" ">> \o name

\* C22: the tag manifest written by a successful finalize has exactly the
\* three lines of bagit.txt, bag-info.txt and the manifest, in that order,
\* each with the digest of the file as that call wrote it; whatever the
\* interleaving of the three computations, the call leaves what the
\* computations run one after the other leave.
C22_TagManifestUnderInterleaving ==
    (lastOp = "finalize" /\ join.pc = "returned")
    => LET one == finalize(join.before.fs, Root, SHA256, join.before.items,
                           join.before.tags)
       IN  /\ fs = one.fs
           /\ tags = one.tags
           /\ genRes = IF one.ok THEN Ok ELSE one.err
           /\ genRes = Ok =>
                /\ Lines(ReadFile(fs, Append(Root, tagmanifest_name(SHA256))))
                     = <<TagManifestLine(BAGIT_TXT), TagManifestLine(BAG_INFO_TXT),
                         TagManifestLine(manifest_name(SHA256))>>
                /\ ReadFile(fs, Append(Root, BAGIT_TXT)) = StepContent(2, items, tags)
                /\ ReadFile(fs, Append(Root, BAG_INFO_TXT)) = StepContent(3, items, tags)
                /\ ReadFile(fs, Append(Root, manifest_name(SHA256)))
                     = StepContent(1, items, tags)

\* a finalize has succeeded whose futures completed in the order manifest,
\* bag-info.txt, bagit.txt
C22_Witness ==
    /\ lastOp = "finalize"
    /\ join.pc = "returned"
    /\ genRes = Ok
    /\ items # <<>>
    /\ join.order = <<3, 2, 1>>
    /\ Len(Lines(ReadFile(fs, Append(Root, tagmanifest_name(SHA256))))) = 3

-----------------------------------------------------------------------------
(* SpecFind: Manifest::find on a slice of paths in the order the caller    *)
(* lists them                                                              *)

(* faulty variant: the kind of the entry is not looked at *)
Manifest_find_listed_AnyKind(fsys, files_in_directory, algo, manifest_prefix) ==
    With(SelectSeq(files_in_directory, LAMBDA path :
            /\ strip_prefix(file_stem(file_name(path)), manifest_prefix).some
            /\ extension(file_name(path)) = [some |-> TRUE, ext |-> TXT]),
         LAMBDA manifests :
    With({i \in 1..Len(manifests) :
            strip_prefix(file_stem(file_name(manifests[i])), manifest_prefix).rest = algo},
         LAMBDA hits :
    IF hits = {} THEN [some |-> FALSE, path |-> <<>>]
    ELSE [some |-> TRUE, path |-> manifests[Min(hits)]]))

\* Manifest::find: filter(...).collect(), then find(...) on what is kept
Manifest_find_listed(fsys, files_in_directory, algo, manifest_prefix) ==
    With(SelectSeq(files_in_directory, LAMBDA path :
            /\ is_file(fsys, path)
            /\ strip_prefix(file_stem(file_name(path)), manifest_prefix).some
            /\ extension(file_name(path)) = [some |-> TRUE, ext |-> TXT]),
         LAMBDA manifests :
    With({i \in 1..Len(manifests) :
            strip_prefix(file_stem(file_name(manifests[i])), manifest_prefix).rest = algo},
         LAMBDA hits :
    IF hits = {} THEN [some |-> FALSE, path |-> <<>>]
    ELSE [some |-> TRUE, path |-> manifests[Min(hits)]]))

MaxListing == 2

\* names like those of manifests: another algorithm, another prefix,
\* another extension, no extension
FindNames ==
    {manifest_name(SHA256), manifest_name(MD5), tagmanifest_name(SHA256),
     MANIFEST_PREFIX \o SHA256 \o <<".", "m", "d">>, MANIFEST_PREFIX \o SHA256}

FindPaths == {Append(dir, name) : dir \in {Root, Sibling}, name \in FindNames}

\* every name is an entry of both directories; in the bag directory the
\* names in dirs are directories, every other entry is a regular file
FindFs(dirs) ==
    [p \in FindPaths |->
        IF p[1] = Root[1] /\ p[2] \in dirs THEN Dir ELSE File(<<"m">>)]
    @@ (Root :> Dir) @@ (Sibling :> Dir) @@ BaseFs

Listings == UNION {[1..n -> FindPaths] : n \in 0..MaxListing}

InitFind ==
    /\ fs \in {FindFs(dirs) : dirs \in SUBSET {manifest_name(SHA256), tagmanifest_name(SHA256)}}
    /\ items = <<>>
    /\ tags = <<>>
    /\ genRes = Ok
    /\ lastOp = "none"
    /\ clean = TRUE
    /\ sealed = FALSE
    /\ nAdd = 0
    /\ added = <<>>
    /\ nFin = 0
    /\ readRes = NoRead
    /\ readArgs = <<>>
    /\ nRead = 0
    /\ nTamper = 0
    /\ tampered = {}
    /\ tag = NoTag
    /\ line = <<>>
    /\ parsed = NoParse
    /\ tpc = "unused"
    /\ join = NoJoin
    /\ found \in {[NoFind EXCEPT !.listing = l] : l \in Listings}

\* a call of Manifest::find(listing, algo, manifest_prefix)
Find(manifest_prefix, algo) ==
    /\ ~found.called
    /\ found' = [found EXCEPT
                    !.called = TRUE, !.prefix = manifest_prefix, !.algo = algo,
                    !.manifest = Manifest_find_listed(fs, found.listing, algo,
                                                      manifest_prefix)]
    /\ UNCHANGED bagVars
    /\ UNCHANGED <<tag, line, parsed, tpc, join>>

NextFind == \E manifest_prefix \in {MANIFEST_PREFIX, TAGMANIFEST_PREFIX}, algo \in Algorithms :
                Find(manifest_prefix, algo)

SpecFind == InitFind /\ [][NextFind]_vars

\* the entries the statement selects: regular files of extension txt whose
\* stem is the prefix followed by the name of the algorithm
Selected ==
    {i \in 1..Len(found.listing) :
        /\ is_file(fs, found.listing[i])
        /\ extension(file_name(found.listing[i])) = [some |-> TRUE, ext |-> TXT]
        /\ file_stem(file_name(found.listing[i])) = found.prefix \o found.algo}

\* C23: find returns an entry exactly when some listed entry is a regular
\* file of extension txt whose stem is the prefix followed by the name of
\* the algorithm, and then the first such entry of the listing; a
\* directory, or a file of another extension, is never returned.  On the
\* entries of one directory it is the manifest read_existing takes.
C23_ManifestDiscovery ==
    found.called =>
        /\ found.manifest.some = (Selected # {})
        /\ Selected # {} => found.manifest.path = found.listing[Min(Selected)]
        /\ found.manifest.some =>
              /\ is_file(fs, found.manifest.path)
              /\ extension(file_name(found.manifest.path)) = [some |-> TRUE, ext |-> TXT]
        /\ (\A i \in 1..Len(found.listing) : starts_with(found.listing[i], Root))
              => found.manifest
                   = Manifest_find(fs, Root,
                                   {file_name(found.listing[i]) : i \in 1..Len(found.listing)},
                                   found.algo, found.prefix)

\* two listed entries are named like the manifest: the first, a directory,
\* is passed over and the second is returned
C23_Witness ==
    /\ found.called
    /\ found.prefix = MANIFEST_PREFIX
    /\ found.algo = SHA256
    /\ found.listing = <<Append(Root, manifest_name(SHA256)), Append(Sibling, manifest_name(SHA256))>>
    /\ is_dir(fs, Append(Root, manifest_name(SHA256)))
    /\ found.manifest = [some |-> TRUE, path |-> Append(Sibling, manifest_name(SHA256))]

\* the first of two qualifying entries is returned
FirstOfTwoReached ==
    /\ found.called
    /\ Cardinality(Selected) = 2
    /\ found.listing[1] # found.listing[2]
    /\ found.manifest.path = found.listing[1]

-----------------------------------------------------------------------------
(* SpecAdd: add_file on sources of every kind: regular files, a path that  *)
(* names nothing, a directory, and a file that already lies in the payload *)
(* directory of the bag                                                    *)

SrcDir == <<<<"s","r","c">>>>
InData == Root \o <<<<"d","a","t","a">>, <<"a">>>>

AddSources == {SrcA, SrcB, SrcMissing, SrcDir, InData}

NextAdd ==
    \/ \E file \in AddSources : AddFile(file)
    \/ Finalize
    \/ ReadExisting(Root, SHA256)

SpecAdd == Init /\ [][NextAdd]_vars

\* where add_file copies file
Destination(file) == Append(PathJoin(Root, DATA_DIR), file_name(file))

\* what the statement says of a call add_file(file) made in the unprimed
\* state and returned in the primed one
AddFilePost(file) ==
    /\ genRes' = Ok =>
        /\ items' = Append(items,
                           Payload(Checksum_digest(SHA256, ReadFile(fs, file)),
                                   DATA_DIR \o file_name(file),
                                   FileLen(fs', Destination(file))))
        /\ tags' = tags
        /\ is_file(fs', Destination(file))
        /\ ReadFile(fs', Destination(file)) = ReadFile(fs, file)
    /\ ~is_file(fs, file) =>
        /\ genRes' = <<"ComputeChecksum", "FileNotFound">>
        /\ fs' = fs

\* C24: a successful add_file(source) appends one Payload with the digest
\* of the source, the path data/<name> and the size of the copy, leaves the
\* earlier payloads and the tags alone, and leaves under data/ a file with
\* the name and the content of the source; a source that is not a regular
\* file fails with ComputeChecksum(FileNotFound) and the data directory is
\* not created.
C24_AddFileEffect ==
    [][\A file \in AddSources : AddFile(file) => AddFilePost(file)]_vars

\* What does hold: the same for every source that is not the file at its
\* own destination.
AddFileEffectOfOtherFiles ==
    [][\A file \in AddSources :
          (AddFile(file) /\ canonicalize(fs, file).path # Destination(file))
          => AddFilePost(file)]_vars

AddFileEffectReached ==
    /\ lastOp = "add_file"
    /\ genRes = Ok
    /\ added = <<SrcA, SrcB>>
    /\ Len(items) = 2
    /\ items[2] = Payload(Checksum_digest(SHA256, <<"y", "y">>), DATA_DIR \o <<"b">>, 2)
    /\ ReadFile(fs, Destination(SrcB)) = <<"y", "y">>

\* the file handed to add_file from the payload directory is left empty,
\* listed with the digest of what it held
TruncatedPayloadReached ==
    /\ lastOp = "add_file"
    /\ genRes = Ok
    /\ added = <<SrcA, InData>>
    /\ items[2] = Payload(Checksum_digest(SHA256, <<"x">>), DATA_DIR \o <<"a">>, 0)
    /\ ReadFile(fs, InData) = <<>>

-----------------------------------------------------------------------------
(* SpecInfo: a finalized bag whose bag-info.txt was rewritten by hand,     *)
(* read with MetadataFile::read and with read_existing                     *)

MaxInfoLines == 2

\* the Payload-Oxum of the bag, a custom tag, an empty line, a line with no
\* separator, an empty key, a Payload-Oxum that is no number
InfoLines ==
    {OxumLine(SumBytes(SealedBag.items), Len(SealedBag.items)),
     <<"k", ":", " ", "v">>,
     <<>>,
     <<"k">>,
     <<":", " ", "v">>,
     KEY_OXUM \o <<":", " ", "x">>}

\* the lines joined by "\n", with or without a "\n" after the last one
InfoTexts ==
    {JoinLines(ls) \o end : ls \in UNION {[1..n -> InfoLines] : n \in 0..MaxInfoLines},
                            end \in {<<>>, <<"\n">>}}

InitInfo ==
    /\ fs \in {[SealedBag.fs EXCEPT ![Append(Root, BAG_INFO_TXT)].content = text] :
                    text \in InfoTexts}
    /\ items = SealedBag.items
    /\ tags = SealedBag.tags
    /\ genRes = Ok
    /\ lastOp = "finalize"
    /\ clean = TRUE
    /\ sealed = TRUE
    /\ nAdd = Len(SealedBag.items)
    /\ added = <<SrcA, SrcB>>
    /\ nFin = 1
    /\ readRes = NoRead
    /\ readArgs = <<>>
    /\ nRead = 0
    /\ nTamper = 1
    /\ tampered = {}
    /\ tag = NoTag
    /\ line = <<>>
    /\ parsed = NoFileRead
    /\ tpc = "info"
    /\ join = NoJoin
    /\ found = NoFind

\* MetadataFile::read(root/bag-info.txt)
ReadInfo ==
    /\ tpc = "info"
    /\ parsed' = MetadataFile_read(fs, Append(Root, BAG_INFO_TXT))
    /\ tpc' = "info read"
    /\ UNCHANGED bagVars
    /\ UNCHANGED <<tag, line, join, found>>

NextInfo ==
    \/ ReadInfo
    \/ ReadExisting(Root, SHA256)

SpecInfo == InitInfo /\ [][NextInfo]_vars

InfoFileLines == Lines(ReadFile(fs, Append(Root, BAG_INFO_TXT)))

\* the lines of bag-info.txt that do not parse
BadInfoLines == {k \in 1..Len(InfoFileLines) : ~from_str(InfoFileLines[k]).ok}

\* C25: MetadataFile::read returns the error of the first line, in file
\* order, that does not parse, and no tag list; it skips no line, an empty
\* line being a Format error; and read_existing on a bag whose bag-info.txt
\* has such a line fails with BagInfo though every payload is valid.
C25_TagFileAllOrNothing ==
    /\ tpc = "info read" =>
        IF BadInfoLines = {}
        THEN /\ parsed.ok
             /\ parsed.tags = [k \in 1..Len(InfoFileLines) |-> from_str(InfoFileLines[k]).tag]
        ELSE /\ ~parsed.ok
             /\ parsed.tags = <<>>
             /\ parsed.err = <<"Metadata">> \o from_str(InfoFileLines[Min(BadInfoLines)]).err
             /\ InfoFileLines[Min(BadInfoLines)] = <<>> => parsed.err = <<"Metadata", "Format">>
    /\ (lastOp = "read_existing" /\ BadInfoLines # {}) =>
        /\ ~readRes.ok
        /\ readRes.err = <<"BagInfo", "Metadata">>
                            \o from_str(InfoFileLines[Min(BadInfoLines)]).err
        /\ readRes.items = <<>>
        /\ readRes.tags = <<>>
        /\ \A i \in 1..Len(items) :
              Checksum_digest(SHA256, ReadFile(fs, PayloadFile(items[i]))) = items[i].checksum

\* a valid line, an empty line, then a Payload-Oxum that is no number: both
\* reads have failed on the empty line
C25_Witness ==
    /\ tpc = "info read"
    /\ lastOp = "read_existing"
    /\ Len(InfoFileLines) = 2
    /\ from_str(InfoFileLines[1]).ok
    /\ InfoFileLines[2] = <<>>
    /\ parsed.err = <<"Metadata", "Format">>
    /\ readRes.err = <<"BagInfo", "Metadata", "Format">>

\* the second of two failing lines is not the one reported
FirstOfTwoBadLinesReached ==
    /\ tpc = "info read"
    /\ InfoFileLines = <<KEY_OXUM \o <<":", " ", "x">>, <<"k">>>>
    /\ parsed.err = <<"Metadata", "ValueParsing", "Payload-Oxum">>

-----------------------------------------------------------------------------
(* SpecOptional: a finalized bag whose tag files are removed, or rewritten *)
(* into other valid tag files, before it is read                           *)

ManifestLinesNow == Lines(ReadFile(fs, Append(Root, manifest_name(SHA256))))

\* bagit.txt declares another version
EditDeclaration ==
    TamperDeclaration(<<Metadata_to_string(BagitVersion(0, 97)), EncodingLine>>)

\* bag-info.txt gets a custom tag before its Payload-Oxum
EditInfo ==
    TamperInfo(<<<<"N", ":", " ", "n">>, OxumLine(SumBytes(items), Len(items))>>)

\* the lines of the manifest in the opposite order
SwapManifest ==
    /\ is_file(fs, Append(Root, manifest_name(SHA256)))
    /\ Tamper(WriteFile(fs, Append(Root, manifest_name(SHA256)),
                        JoinLines([k \in 1..Len(ManifestLinesNow) |->
                            ManifestLinesNow[Len(ManifestLinesNow) + 1 - k]])).fs, {})

\* the last line of the manifest removed
DropManifestLine ==
    /\ is_file(fs, Append(Root, manifest_name(SHA256)))
    /\ Len(ManifestLinesNow) > 1
    /\ Tamper(WriteFile(fs, Append(Root, manifest_name(SHA256)),
                        JoinLines(SubSeq(ManifestLinesNow, 1, Len(ManifestLinesNow) - 1))).fs,
              {})

NextOptional ==
    \/ EditDeclaration
    \/ EditInfo
    \/ SwapManifest
    \/ DropManifestLine
    \/ \E i \in 1..Len(items) : TamperPayload(i)
    \/ \E name \in {BAG_INFO_TXT, tagmanifest_name(SHA256)} : RemoveFile(name)
    \/ ReadExisting(Root, SHA256)

SpecOptional == InitRead /\ [][NextOptional]_vars

\* the file is not what finalize wrote
ChangedSinceFinalize(name) ==
    /\ HasFile(name)
    /\ ReadFile(fs, Append(Root, name)) # ReadFile(SealedBag.fs, Append(Root, name))

TagManifestLinesPass ==
    \A k \in 1..Len(LinesOf(tagmanifest_name(SHA256))) :
        from_manifest(fs, SHA256, LinesOf(tagmanifest_name(SHA256))[k], Root).ok

\* C26: with neither bag-info.txt nor a tag manifest, a bag whose
\* declaration and manifest are valid is read successfully; when the tag
\* manifest exists and the stages before it pass, the read succeeds exactly
\* when every line of the tag manifest validates, so that a bagit.txt,
\* bag-info.txt or manifest changed since finalize, the three still there,
\* makes it fail with ProcessManifestLine(ChecksumDiffers); the payloads of
\* the returned Bag are those of the manifest alone.
C26_OptionalStages ==
    lastOp = "read_existing" =>
        /\ (/\ ~HasInfo
            /\ ~exists(fs, Append(Root, tagmanifest_name(SHA256)))
            /\ ~DeclarationFails /\ ~ManifestFails /\ ~LinesFail(manifest_name(SHA256)))
           => readRes.ok /\ readRes.tags = <<>>
        /\ (FailingStages \cap 1..7 = {} /\ HasFile(tagmanifest_name(SHA256)))
           => /\ readRes.ok = TagManifestLinesPass
              /\ (/\ \A name \in {BAGIT_TXT, BAG_INFO_TXT, manifest_name(SHA256)} :
                        HasFile(name)
                  /\ \E name \in {BAGIT_TXT, BAG_INFO_TXT, manifest_name(SHA256)} :
                        ChangedSinceFinalize(name))
                 => readRes.err = <<"ProcessManifestLine", "ChecksumDiffers">>
        /\ readRes.ok
           => /\ readRes.items
                    = [k \in 1..Len(ManifestLinesNow) |->
                            from_manifest(fs, SHA256, ManifestLinesNow[k], Root).payload]
              /\ \A i \in 1..Len(readRes.items) :
                    readRes.items[i].relative_path
                        \notin {BAGIT_TXT, BAG_INFO_TXT, manifest_name(SHA256)}

\* the bag was read with its bagit.txt rewritten into another valid
\* declaration: the tag manifest no longer matches
C26_Witness ==
    /\ lastOp = "read_existing"
    /\ nTamper = 1
    /\ ChangedSinceFinalize(BAGIT_TXT)
    /\ ~DeclarationFails
    /\ HasFile(tagmanifest_name(SHA256))
    /\ readRes.err = <<"ProcessManifestLine", "ChecksumDiffers">>

\* the bag was read successfully with neither optional file
NeitherOptionalFileReached ==
    /\ lastOp = "read_existing"
    /\ ~HasInfo
    /\ ~exists(fs, Append(Root, tagmanifest_name(SHA256)))
    /\ readRes.ok
    /\ Len(readRes.items) = 2

\* a manifest with one line less fails the Payload-Oxum check before the
\* tag manifest is looked at
DroppedLineFailsOxumReached ==
    /\ lastOp = "read_existing"
    /\ HasInfo
    /\ Len(ManifestLinesNow) = 1
    /\ readRes.err = <<"BagInfoOxum", "stream_count">>

-----------------------------------------------------------------------------
(* SpecKey: Metadata::from_str on well-formed lines of every known key,    *)
(* and of keys that are not known                                          *)

\* the four known keys, a key of another case, a custom key
DispatchKeys ==
    {KEY_VERSION, KEY_ENCODING, KEY_DATE, KEY_OXUM,
     <<"b","a","g","i","t","-","v","e","r","s","i","o","n">>, <<"k">>}

\* pairs of numbers within and beyond a u8, one number, three numbers, a
\* sign, a part missing, a part that is no number, leading zeros, the
\* encoding in both cases, a date, a day that does not exist
DispatchValues ==
    {<<"1", ".", "0">>, <<"2", "5", "5", ".", "2", "5", "5">>,
     <<"2", "5", "6", ".", "0">>, <<"0", ".", "2", "5", "6">>,
     <<"1">>, <<"1", ".", "2", ".", "3">>,
     <<"+", "1", ".", "0">>, <<"-", "1", ".", "0">>,
     <<"1", ".">>, <<".", "1">>, <<"1", ".", "x">>, <<"0", "1", ".", "0", "0", "2">>,
     UTF8, <<"u", "t", "f", "-", "8">>,
     DateString(20240801), <<"2", "0", "2", "4", "-", "0", "2", "-", "3", "0">>}

InitKey ==
    /\ fs = BaseFs
    /\ items = <<>>
    /\ tags = <<>>
    /\ genRes = Ok
    /\ lastOp = "none"
    /\ clean = TRUE
    /\ sealed = FALSE
    /\ nAdd = 0
    /\ added = <<>>
    /\ nFin = 0
    /\ readRes = NoRead
    /\ readArgs = <<>>
    /\ nRead = 0
    /\ nTamper = 0
    /\ tampered = {}
    /\ tag = NoTag
    /\ line \in {k \o <<":", " ">> \o v : k \in DispatchKeys, v \in DispatchValues}
    /\ parsed = NoParse
    /\ tpc = "line"
    /\ join = NoJoin
    /\ found = NoFind

SpecKey == InitKey /\ [][FromStr]_vars

\* the text of an unsigned integer: decimal digits, a "+" allowed before
UnsignedText(s) ==
    LET body == IF s # <<>> /\ s[1] = "+" THEN SubSeq(s, 2, Len(s)) ELSE s
    IN  body # <<>> /\ \A i \in 1..Len(body) : body[i] \in {Digits[d] : d \in 1..10}

UnsignedValue(s) ==
    DigitsValue(IF s[1] = "+" THEN SubSeq(s, 2, Len(s)) ELSE s, 0)

FirstDot(v) == Min({i \in 1..Len(v) : v[i] = "."})
BeforeDot(v) == SubSeq(v, 1, FirstDot(v) - 1)
AfterDot(v) == SubSeq(v, FirstDot(v) + 1, Len(v))

\* "<a>.<b>" cut at the first ".", both parts unsigned integers, of 0..255
\* when small
PairOfUnsigned(v, small) ==
    /\ \E i \in 1..Len(v) : v[i] = "."
    /\ UnsignedText(BeforeDot(v)) /\ (small => UnsignedValue(BeforeDot(v)) <= U8_MAX)
    /\ UnsignedText(AfterDot(v)) /\ (small => UnsignedValue(AfterDot(v)) <= U8_MAX)

\* the three keys the statement names
KnownKeyDispatch ==
    /\ KeyOfLine = KEY_VERSION =>
        IF PairOfUnsigned(ValueOfLine, TRUE)
        THEN /\ parsed.ok
             /\ parsed.tag = BagitVersion(UnsignedValue(BeforeDot(ValueOfLine)),
                                          UnsignedValue(AfterDot(ValueOfLine)))
        ELSE ~parsed.ok /\ parsed.err = <<"ValueParsing", "BagIt-Version">>
    /\ KeyOfLine = KEY_OXUM =>
        IF PairOfUnsigned(ValueOfLine, FALSE)
        THEN /\ parsed.ok
             /\ parsed.tag = PayloadOctetStreamSummary(
                                 UnsignedValue(BeforeDot(ValueOfLine)),
                                 UnsignedValue(AfterDot(ValueOfLine)))
        ELSE ~parsed.ok /\ parsed.err = <<"ValueParsing", "Payload-Oxum">>
    /\ KeyOfLine = KEY_ENCODING =>
        IF ValueOfLine = UTF8 THEN parsed.ok /\ parsed.tag = Encoding
        ELSE ~parsed.ok /\ parsed.err = <<"Encoding">>

ThreeNumbersRefusedReached ==
    /\ tpc = "parsed"
    /\ KeyOfLine = KEY_VERSION
    /\ ValueOfLine = <<"1", ".", "2", ".", "3">>
    /\ parsed.err = <<"ValueParsing", "BagIt-Version">>

-----------------------------------------------------------------------------
(* C28: finalize called again on a finalized bag                           *)

\* finalize returns Ok right after a finalize that returned Ok
FinalizedAgain ==
    /\ lastOp = "finalize" /\ genRes = Ok
    /\ nFin' = nFin + 1 /\ genRes' = Ok

SameContent(name) ==
    /\ is_file(fs, Append(Root, name))
    /\ is_file(fs', Append(Root, name))
    /\ ReadFile(fs', Append(Root, name)) = ReadFile(fs, Append(Root, name))

\* C28: a second finalize, with no add_file since the first, leaves the
\* manifest, bagit.txt, bag-info.txt and the tag manifest byte for byte
\* what they were, and the payload and tag lists of the bag unchanged.
C28_FinalizeTwice ==
    [][FinalizedAgain
        => /\ \A name \in TagFiles : SameContent(name)
           /\ items' = items
           /\ tags' = tags]_vars

\* What does hold: the manifest and bagit.txt are what they were and the
\* payloads are unchanged; the tag list has one more Payload-Oxum tag,
\* bag-info.txt one more line, and the tag manifest another digest for it.
FinalizeTwiceAppendsAgain ==
    [][FinalizedAgain
        => /\ SameContent(manifest_name(SHA256))
           /\ SameContent(BAGIT_TXT)
           /\ items' = items
           /\ tags' = Append(tags, OxumOf(items))
           /\ Lines(ReadFile(fs', Append(Root, BAG_INFO_TXT)))
                = Append(Lines(ReadFile(fs, Append(Root, BAG_INFO_TXT))),
                         Metadata_to_string(OxumOf(items)))
           /\ ~SameContent(tagmanifest_name(SHA256))]_vars

FinalizedTwiceReached ==
    /\ lastOp = "finalize"
    /\ genRes = Ok
    /\ nFin = 2
    /\ Len(items) = 1
    /\ tags = <<OxumOf(items), OxumOf(items)>>
    /\ Len(Lines(ReadFile(fs, Append(Root, BAG_INFO_TXT)))) = 2

-----------------------------------------------------------------------------
(* SpecAddFault: add_file where a step of it cannot complete               *)

SrcWriteOnly == <<<<"s","r","c">>, <<"w">>>>

\* the bag directory as new_empty finds it: absent; empty; with a regular
\* file named data; with a directory where the copy of /src/a goes.  One
\* source cannot be opened for reading.
AddFaultDisks ==
    {(SrcWriteOnly :> WriteOnly(<<"w">>)) @@ d :
        d \in {BaseFs,
               (Root :> Dir) @@ BaseFs,
               (Root \o <<<<"d","a","t","a">>>> :> File(<<"f">>)) @@ (Root :> Dir) @@ BaseFs,
               (InData :> Dir) @@ (Root \o <<<<"d","a","t","a">>>> :> Dir)
                    @@ (Root :> Dir) @@ BaseFs}}

InitAddFault ==
    /\ fs \in AddFaultDisks
    /\ items = <<>>
    /\ tags = <<>>
    /\ genRes = Ok
    /\ lastOp = "new_empty"
    /\ clean = TRUE
    /\ sealed = FALSE
    /\ nAdd = 0
    /\ added = <<>>
    /\ nFin = 0
    /\ readRes = NoRead
    /\ readArgs = <<>>
    /\ nRead = 0
    /\ nTamper = 0
    /\ tampered = {}
    /\ tag = NoTag
    /\ line = <<>>
    /\ parsed = NoParse
    /\ tpc = "unused"
    /\ join = NoJoin
    /\ found = NoFind

NextAddFault ==
    \/ \E file \in {SrcA, SrcB, SrcMissing, SrcDir, SrcWriteOnly} : AddFile(file)
    \/ AddBaggingDate(20240801)
    \/ Finalize

SpecAddFault == InitAddFault /\ [][NextAddFault]_vars

\* C29: when add_file returns an error, at whichever step, the payload
\* list and the tag list of the bag are what they were before the call.
C29_FailedAddFileKeepsLists ==
    [][(nAdd' # nAdd /\ genRes' # Ok) => (items' = items /\ tags' = tags)]_vars

\* add_file has failed at the copy, on a bag that had a payload and a tag
C29_Witness ==
    /\ lastOp = "add_file"
    /\ genRes = <<"CopyToPayloadFolder", "IsADirectory">>
    /\ Len(items) = 1
    /\ tags = <<BaggingDate(20240801)>>

\* the other steps of add_file that fail on these disks
OtherAddFileFailuresReached ==
    /\ lastOp = "add_file"
    /\ genRes \in {<<"ComputeChecksum", "FileNotFound">>,
                   <<"ComputeChecksum", "OpenFile", "PermissionDenied">>,
                   <<"OpenChecksumFile">>}
    /\ tags # <<>>

-----------------------------------------------------------------------------
(* C30: the bag with no payload                                            *)

\* what the statement says follows the finalize of a bag with no payload,
\* and the read of that bag
EmptyBagFinalized ==
    /\ genRes = Ok
    /\ is_file(fs, Append(Root, manifest_name(SHA256)))
    /\ ReadFile(fs, Append(Root, manifest_name(SHA256))) = <<>>
    /\ ReadFile(fs, Append(Root, BAG_INFO_TXT))
            = <<"P","a","y","l","o","a","d","-","O","x","u","m",":"," ","0",".","0">>

EmptyBagRead ==
    (lastOp = "read_existing" /\ readArgs = <<Root, SHA256>> /\ sealed /\ nAdd = 0)
        => /\ readRes.ok
           /\ readRes.items = <<>>

\* C30 (as stated): on a bag made by new_empty, with no add_file, finalize
\* succeeds and writes a manifest of no byte and the line
\* "Payload-Oxum: 0.0"; read_existing of that directory with the same
\* algorithm then succeeds with no payload.
C30_EmptyBag ==
    /\ (lastOp = "finalize" /\ nAdd = 0 /\ nFin = 1) => EmptyBagFinalized
    /\ EmptyBagRead

\* C30 (amended): the same on a bag made by new_empty in a directory that
\* exists.
C30_EmptyBagInDirectory ==
    /\ (lastOp = "finalize" /\ nAdd = 0 /\ nFin = 1 /\ is_dir(fs, Root)) => EmptyBagFinalized
    /\ EmptyBagRead

\* the empty bag has been finalized once and read back
C30_Witness ==
    /\ lastOp = "read_existing"
    /\ readArgs = <<Root, SHA256>>
    /\ sealed
    /\ nAdd = 0
    /\ nFin = 1
    /\ readRes.ok
    /\ readRes.items = <<>>
    /\ readRes.tags = <<PayloadOctetStreamSummary(0, 0)>>
    /\ ReadFile(fs, Append(Root, manifest_name(SHA256))) = <<>>

\* in a directory that does not exist, where nothing was added, finalize
\* fails: only add_file creates the directories
EmptyBagWithoutDirectoryReached ==
    /\ lastOp = "finalize"
    /\ nAdd = 0
    /\ ~exists(fs, Root)
    /\ genRes = <<"Finalize", "NotFound">>

====
